---- MODULE Spec2Model ----
(***************************************************************************)
(* Model of anemia_app.py, a Streamlit script.  Streamlit re-runs the      *)
(* whole script, top to bottom, each time a widget changes; the state is   *)
(* therefore the values the script reads from its widgets on the current   *)
(* run (the record "form", one field per script variable) together with    *)
(* everything the run computes from them.  Every action is one widget edit *)
(* followed by the complete re-run.                                        *)
(*                                                                         *)
(* Conventions.                                                            *)
(*  - Python's None is the empty tuple <<>>; a value v that is not None is *)
(*    the one-element tuple <<v>>.                                         *)
(*  - Numbers typed into text inputs are integers here; the values the     *)
(*    script computes from them (corrected retic, RPI, maturation factor)  *)
(*    are exact rationals [num, den]; on the values used here the script's *)
(*    floating-point comparison rpi >= 2 agrees with the exact one.        *)
(*  - A Python string is a sequence of pieces, each a string of TextTable, *)
(*    which writes every string out as its tokens: maximal runs of word    *)
(*    characters, and every other character on its own.  This is what the  *)
(*    script's regular expressions (\b...\b, re.I) and string methods      *)
(*    (strip, split, lower, startswith, upper) look at.                    *)
(*  - Three literals of the source are written in ASCII: the en dash of    *)
(*    "Normocytic (80-100)" and the >= sign of "Appropriate (RPI >=2)",    *)
(*    and the ellipsis character of the alternative "Select..." sentinel.  *)
(***************************************************************************)
EXTENDS Integers, Sequences, FiniteSets, TLC

VARIABLES
    form,              \* the script variables read from the widgets on this run
    mf,                \* maturation factor shown in the retic expander
    corrected_retic,   \* corrected reticulocyte percentage
    rpi,               \* reticulocyte production index
    error,             \* the exception that ended the run, "none" if it completed
    marrow_response,   \* marrow response label
    known,             \* build_known(inputs)
    generated,         \* the run took the branch that builds the POC summary
    dx,                \* candidate items in rule-evaluation order
    dx_unique,         \* ranked differential
    tests,             \* "Do next tests"
    actions,           \* "Do next actions"
    referral_reasons,  \* hematology referral reasons
    call,              \* direct call of a helper function: its arguments
    ret                \* direct call of a helper function: its result

vars == <<form, mf, corrected_retic, rpi, error, marrow_response, known,
          generated, dx, dx_unique, tests, actions, referral_reasons, call, ret>>

outputs == <<mf, corrected_retic, rpi, error, marrow_response, known,
             generated, dx, dx_unique, tests, actions, referral_reasons>>

-----------------------------------------------------------------------------
(* Optional values *)

None == <<>>

Some(v) == <<v>>

Val(x) == x[1]

IsNone(x) == x = None

-----------------------------------------------------------------------------
(* Exact rational arithmetic for the values the script computes as floats *)

Abs(n) == IF n < 0 THEN -n ELSE n

RECURSIVE GCD(_, _)
GCD(a, b) == IF b = 0 THEN a ELSE GCD(b, a % b)

\* den = 0 stands for the ZeroDivisionError Python raises
Reduced(n, d, g) == [num |-> n \div g, den |-> d \div g]

Rat(n, d) ==
    IF d = 0 THEN [num |-> 0, den |-> 0]
    ELSE IF d < 0 THEN Reduced(-n, -d, GCD(Abs(n), Abs(d)))
    ELSE Reduced(n, d, GCD(Abs(n), Abs(d)))

RatOf(n) == Rat(n, 1)

Raised(x) == x.den = 0

RatMul(a, b) == IF Raised(a) \/ Raised(b) THEN Rat(0, 0) ELSE Rat(a.num * b.num, a.den * b.den)

RatDiv(a, b) == IF Raised(a) \/ Raised(b) THEN Rat(0, 0) ELSE Rat(a.num * b.den, a.den * b.num)

RatGeq(a, b) == a.num * b.den >= b.num * a.den

RatLt(a, b) == a.num * b.den < b.num * a.den


-----------------------------------------------------------------------------
(* Input normalisation *)

\* What the user typed into a text input: nothing, something float() rejects, a
\* number, or the text "nan", which float() accepts.
Blank == <<"blank">>

Junk == <<"junk">>

Typed(n) == <<"num", n>>

NotANumber == <<"nan">>

\* float("nan"): a float that is not None, and for which every comparison with a
\* number is false
NaN == <<"nan", "nan">>

IsNaN(x) == x = NaN

to_float(x) ==
    IF x[1] = "num" THEN Some(x[2])
    ELSE IF x = NotANumber THEN NaN
    ELSE None

selected(x) == IF x \in {"", "Select..."} THEN None ELSE Some(x)

-----------------------------------------------------------------------------
(* Reticulocyte index and RPI *)

\* a faulty variant: a hematocrit of exactly 40 falls into the second step
MaturationFactorAbove40(hct) ==
    IF IsNone(hct) THEN None
    ELSE IF Val(hct) > 40 THEN Some(Rat(10, 10))
    ELSE IF Val(hct) >= 30 THEN Some(Rat(15, 10))
    ELSE IF Val(hct) >= 20 THEN Some(Rat(20, 10))
    ELSE Some(Rat(25, 10))

maturation_factor(hct) ==
    IF IsNone(hct) THEN None
    ELSE IF Val(hct) >= 40 THEN Some(Rat(10, 10))
    ELSE IF 30 <= Val(hct) /\ Val(hct) < 40 THEN Some(Rat(15, 10))
    ELSE IF 20 <= Val(hct) /\ Val(hct) < 30 THEN Some(Rat(20, 10))
    ELSE Some(Rat(25, 10))

\* expected_hct = expected_hct_input if expected_hct_input is not None else 40.0
ExpectedHct(expected_hct_input) ==
    IF IsNone(expected_hct_input) THEN 40 ELSE Val(expected_hct_input)

\* a faulty variant: the expected hematocrit is not tested against zero
CanCorrectWithoutZeroCheck(retic_pct, hct, expected_hct) ==
    ~IsNone(retic_pct) /\ ~IsNone(hct)

\* the condition under which the script computes corrected_retic
CanCorrect(retic_pct, hct, expected_hct) ==
    \* "expected_hct and expected_hct != 0": a float is falsy exactly when it is 0
    ~IsNone(retic_pct) /\ ~IsNone(hct) /\ expected_hct # 0 /\ expected_hct # 0

\* the condition under which the script divides by the maturation factor
CanIndex(m) == ~IsNone(m) /\ Val(m).num # 0

CorrectedRetic(retic_pct, hct, expected_hct) ==
    IF CanCorrect(retic_pct, hct, expected_hct)
    THEN Some(RatMul(RatOf(Val(retic_pct)), RatDiv(RatOf(Val(hct)), RatOf(expected_hct))))
    ELSE None

\* rpi = (corrected_retic / mf) if (corrected_retic is not None and mf) else None
Rpi(cr, m) == IF ~IsNone(cr) /\ CanIndex(m) THEN Some(RatDiv(Val(cr), Val(m))) ELSE None

\* a faulty variant: an RPI of exactly 2 is labelled inadequate
MarrowResponseStrict(r, retic_qual) ==
    IF ~IsNone(r)
    THEN IF ~RatGeq(RatOf(2), Val(r)) THEN "Appropriate (RPI >=2)" ELSE "Inadequate (RPI <2)"
    ELSE IF ~IsNone(retic_qual)
    THEN IF Val(retic_qual) = "High" THEN "Appropriate/High retic"
         ELSE IF Val(retic_qual) = "Low" THEN "Inadequate/Low retic"
         ELSE "Unknown"
    ELSE "Unknown"

MarrowResponse(r, retic_qual) ==
    IF ~IsNone(r)
    THEN IF RatGeq(Val(r), RatOf(2)) THEN "Appropriate (RPI >=2)" ELSE "Inadequate (RPI <2)"
    ELSE IF ~IsNone(retic_qual)
    THEN IF Val(retic_qual) = "High" THEN "Appropriate/High retic"
         ELSE IF Val(retic_qual) = "Low" THEN "Inadequate/Low retic"
         ELSE "Unknown"
    ELSE "Unknown"

-----------------------------------------------------------------------------
(* Known flags *)

\* inputs = {...}: the twelve values the suggestion filter looks at
Inputs(f, r) ==
    [tsh |-> f.tsh, egfr |-> f.egfr, ferritin |-> f.ferritin, tsat |-> f.transferrin_sat,
     b12 |-> f.b12, folate |-> f.folate, ldh |-> f.ldh, haptoglobin |-> f.haptoglobin,
     indirect_bili |-> f.indirect_bili, retic_pct |-> f.retic_pct,
     retic_qual |-> f.retic_qual, rpi |-> r]

\* a faulty variant: iron_any asks for both iron studies
WithAnyIronAsBoth(k) ==
    [tsh |-> k.tsh, egfr |-> k.egfr, ferritin |-> k.ferritin, tsat |-> k.tsat,
     b12 |-> k.b12, folate |-> k.folate, ldh |-> k.ldh, haptoglobin |-> k.haptoglobin,
     indirect_bili |-> k.indirect_bili, retic_pct |-> k.retic_pct,
     retic_qual |-> k.retic_qual, rpi |-> k.rpi,
     iron_any |-> k.ferritin /\ k.tsat,
     hemo_any |-> k.ldh \/ k.haptoglobin \/ k.indirect_bili,
     retic_any |-> k.rpi \/ k.retic_pct \/ k.retic_qual,
     vits_any |-> k.b12 \/ k.folate]


\* known["iron_any"] = ... and the three assignments after it
WithAny(k) ==
    [tsh |-> k.tsh, egfr |-> k.egfr, ferritin |-> k.ferritin, tsat |-> k.tsat,
     b12 |-> k.b12, folate |-> k.folate, ldh |-> k.ldh, haptoglobin |-> k.haptoglobin,
     indirect_bili |-> k.indirect_bili, retic_pct |-> k.retic_pct,
     retic_qual |-> k.retic_qual, rpi |-> k.rpi,
     iron_any |-> k.ferritin \/ k.tsat,
     hemo_any |-> k.ldh \/ k.haptoglobin \/ k.indirect_bili,
     retic_any |-> k.rpi \/ k.retic_pct \/ k.retic_qual,
     vits_any |-> k.b12 \/ k.folate]

build_known(inputs) ==
    WithAny([tsh |-> ~IsNone(inputs.tsh), egfr |-> ~IsNone(inputs.egfr),
             ferritin |-> ~IsNone(inputs.ferritin), tsat |-> ~IsNone(inputs.tsat),
             b12 |-> ~IsNone(inputs.b12), folate |-> ~IsNone(inputs.folate),
             ldh |-> ~IsNone(inputs.ldh), haptoglobin |-> ~IsNone(inputs.haptoglobin),
             indirect_bili |-> ~IsNone(inputs.indirect_bili),
             retic_pct |-> ~IsNone(inputs.retic_pct),
             retic_qual |-> ~IsNone(inputs.retic_qual), rpi |-> ~IsNone(inputs.rpi)])

-----------------------------------------------------------------------------
(* Ranking helpers *)

add_item(lst, title, workup, priority) ==
    Append(lst, [title |-> title, workup |-> workup, priority |-> priority])

\* sorted(dx, key=priority): Python's sort is stable, an item goes after every
\* item already placed whose priority is not larger
\* faulty variant: an unstable sort, an item goes before the items already
\* placed that have its priority
InsertBeforeTies(sorted, it) ==
    LET n == Cardinality({i \in 1..Len(sorted) : sorted[i].priority < it.priority})
    IN  SubSeq(sorted, 1, n) \o <<it>> \o SubSeq(sorted, n + 1, Len(sorted))

InsertByPriority(sorted, it) ==
    LET n == Cardinality({i \in 1..Len(sorted) : sorted[i].priority <= it.priority})
    IN  SubSeq(sorted, 1, n) \o <<it>> \o SubSeq(sorted, n + 1, Len(sorted))

RECURSIVE SortByPriority(_)
SortByPriority(items) ==
    IF items = <<>> THEN <<>>
    ELSE InsertByPriority(SortByPriority(SubSeq(items, 1, Len(items) - 1)), items[Len(items)])

RECURSIVE DedupeFrom(_, _, _)
DedupeFrom(items, seen, out) ==
    IF items = <<>> THEN out
    ELSE IF Head(items).title \notin seen
         THEN DedupeFrom(Tail(items), seen \cup {Head(items).title}, Append(out, Head(items)))
         ELSE DedupeFrom(Tail(items), seen, out)

\* faulty variant: nothing is dropped
KeepEveryItem(items) == items

dedupe_by_title(items) == DedupeFrom(items, {}, <<>>)

Titles(items) == [i \in 1..Len(items) |-> items[i].title]

HasTitle(items, t) == \E i \in 1..Len(items) : items[i].title = t


-----------------------------------------------------------------------------
(* Differential build *)

Microcytic == "Microcytic (<80)"

Normocytic == "Normocytic (80-100)"

Macrocytic == "Macrocytic (>100)"

\* a faulty variant: the bound itself is included
LtInclusive(x, n) == ~IsNone(x) /\ ~IsNaN(x) /\ Val(x) <= n


\* a faulty variant: a value that is None counts as 0
LtWithNoneAsZero(x, n) == ~IsNaN(x) /\ (IF IsNone(x) THEN 0 ELSE Val(x)) < n


Lt(x, n) == ~IsNone(x) /\ ~IsNaN(x) /\ Val(x) < n

\* a faulty variant: the bound itself is left out
GeqStrict(x, n) == ~IsNone(x) /\ ~IsNaN(x) /\ Val(x) > n


Geq(x, n) == ~IsNone(x) /\ ~IsNaN(x) /\ Val(x) >= n

Gt(x, n) == ~IsNone(x) /\ ~IsNaN(x) /\ Val(x) > n

\* a faulty variant: only an RPI counts as an appropriate response
AppropriateByRpiOnly(marrow) == marrow = "Appropriate (RPI >=2)"


AppropriateMarrow(marrow) == marrow \in {"Appropriate (RPI >=2)", "Appropriate/High retic"}

MicrocyticRules(lst, f) ==
    IF f.mcv_cat # Some(Microcytic) THEN lst
    ELSE IF Lt(f.ferritin, 30)
    THEN add_item(lst, "Iron deficiency anemia",
                  <<"Action: assess source of blood loss (GI/menstrual)",
                    "Action: consider GI evaluation when appropriate (age/risk-based)",
                    "Action: consider celiac testing if indicated">>, 10)
    ELSE IF Geq(f.ferritin, 100) /\ Lt(f.transferrin_sat, 20)
    THEN add_item(lst, "Anemia of chronic inflammation with functional iron deficiency",
                  <<"Action: review chronic inflammatory/infectious disease history",
                    "CRP/ESR (if inflammatory disease suspected)">>, 20)
    ELSE add_item(lst, "Thalassemia trait / hemoglobinopathy",
                  <<"Action: review CBC indices (RBC count, RDW)",
                    "Peripheral smear review",
                    "Hemoglobin electrophoresis">>, 30)

NormocyticRules(lst, f, marrow) ==
    IF f.mcv_cat # Some(Normocytic) THEN lst
    ELSE IF AppropriateMarrow(marrow)
    THEN add_item(
           add_item(lst, "Blood loss (acute or occult)",
                    <<"Action: assess bleeding history",
                      "Iron studies (Ferritin, TSAT)",
                      "Action: consider stool testing/GI evaluation when appropriate">>, 15),
           "Hemolysis",
           <<"Hemolysis markers (LDH, haptoglobin, indirect bilirubin)",
             "Peripheral smear review",
             "DAT/Coombs (if suspected AIHA)">>, 18)
    ELSE LET a == add_item(lst, "Anemia of chronic inflammation",
                           <<"Action: review chronic disease burden",
                             "Iron studies (Ferritin, TSAT)",
                             "CRP/ESR (if clinically indicated)">>, 20)
             b == IF Lt(f.egfr, 60)
                  THEN add_item(a, "Anemia associated with CKD",
                                <<"Iron studies (Ferritin, TSAT)",
                                  "B12 and folate",
                                  "Action: assess for bleeding/iron loss as appropriate">>, 22)
                  ELSE a
         IN  add_item(b, "Bone marrow process / underproduction (consider if persistent or with other cytopenias)",
                      <<"Peripheral smear review",
                        "Action: trend CBC",
                        "Action: consider hematology referral if unexplained or with other cytopenias">>, 28)

\* a faulty variant: the item asks for both vitamins to be entered and not low
MacrocyticRulesWhenBothEntered(lst, f) ==
    IF f.mcv_cat = Some(Macrocytic) /\ Geq(f.b12, 200) /\ Geq(f.folate, 4)
    THEN add_item(lst, "Macrocytosis with B12/folate not low (consider alcohol/liver/thyroid/meds; marrow disorder if persistent)",
                  <<"TSH",
                    "Action: consider LFTs",
                    "Peripheral smear review",
                    "Action: review meds/alcohol; consider hematology referral if persistent/unexplained">>, 25)
    ELSE lst


MacrocyticRules(lst, f) ==
    IF f.mcv_cat # Some(Macrocytic) THEN lst
    ELSE IF (IsNone(f.b12) \/ Geq(f.b12, 200)) /\ (IsNone(f.folate) \/ Geq(f.folate, 4))
    THEN add_item(lst, "Macrocytosis with B12/folate not low (consider alcohol/liver/thyroid/meds; marrow disorder if persistent)",
                  <<"TSH",
                    "Action: consider LFTs",
                    "Peripheral smear review",
                    "Action: review meds/alcohol; consider hematology referral if persistent/unexplained">>, 25)
    ELSE lst

\* faulty variant: the rule sits inside the macrocytic branch
B12RuleMacrocyticOnly(lst, f) ==
    IF f.mcv_cat = Some(Macrocytic) /\ Lt(f.b12, 200)
    THEN add_item(lst, "Vitamin B12 deficiency",
                  <<"MMA +/- homocysteine (if borderline)",
                    "Action: assess diet/malabsorption risks",
                    "Intrinsic factor antibody (if pernicious anemia suspected)">>, 12)
    ELSE lst

B12Rule(lst, f) ==
    IF Lt(f.b12, 200)
    THEN add_item(lst, "Vitamin B12 deficiency",
                  <<"MMA +/- homocysteine (if borderline)",
                    "Action: assess diet/malabsorption risks",
                    "Intrinsic factor antibody (if pernicious anemia suspected)">>, 12)
    ELSE lst

FolateRule(lst, f) ==
    IF Lt(f.folate, 4)
    THEN add_item(lst, "Folate deficiency",
                  <<"Action: assess nutrition/alcohol use",
                    "Action: review folate-antagonist meds/exposures">>, 15)
    ELSE lst

\* faulty variant: the item is ranked below iron deficiency
HemolysisRankedLower(lst, f) ==
    IF f.ldh = Some("High") /\ f.haptoglobin = Some("Low") /\ f.indirect_bili = Some("High")
    THEN add_item(lst, "Hemolysis (supported by markers)",
                  <<"Peripheral smear review",
                    "DAT/Coombs",
                    "Reticulocyte count / RPI",
                    "Action: consider G6PD if indicated">>, 11)
    ELSE lst

HemolysisRule(lst, f) ==
    IF f.ldh = Some("High") /\ f.haptoglobin = Some("Low") /\ f.indirect_bili = Some("High")
    THEN add_item(lst, "Hemolysis (supported by markers)",
                  <<"Peripheral smear review",
                    "DAT/Coombs",
                    "Reticulocyte count / RPI",
                    "Action: consider G6PD if indicated">>, 8)
    ELSE lst

TshRule(lst, f) ==
    IF Gt(f.tsh, 5)
    THEN add_item(lst, "Hypothyroidism-associated anemia",
                  <<"Action: repeat TSH/FT4 if needed",
                    "Iron studies (Ferritin, TSAT)",
                    "B12 and folate">>, 35)
    ELSE lst

NsaidRule(lst, f) ==
    IF "NSAIDs / aspirin (chronic)" \in f.exposures
    THEN add_item(lst, "Medication-associated occult GI blood loss (NSAIDs/ASA)",
                  <<"Action: assess GI symptoms",
                    "Iron studies (Ferritin, TSAT)",
                    "Action: review need for NSAID/ASA">>, 40)
    ELSE lst

AnticoagulantRule(lst, f) ==
    IF "Anticoagulant/antiplatelet use" \in f.exposures
    THEN add_item(lst, "Bleeding risk contribution (anticoagulant/antiplatelet)",
                  <<"Action: review medication indications",
                    "Action: assess bleeding history">>, 42)
    ELSE lst

PpiMetforminRule(lst, f) ==
    IF "PPI (long-term)" \in f.exposures \/ "Metformin (long-term)" \in f.exposures
    THEN add_item(lst, "Medication-associated B12 deficiency risk (PPI/metformin)",
                  <<"B12 and folate",
                    "MMA +/- homocysteine (if borderline)",
                    "Action: assess neuropathy/glossitis">>, 40)
    ELSE lst

AlcoholRule(lst, f) ==
    IF "Alcohol use (heavy)" \in f.exposures
    THEN add_item(lst, "Alcohol-related macrocytosis / nutritional deficiency",
                  <<"Action: consider LFTs",
                    "B12 and folate",
                    "Action: consider counseling/support resources">>, 45)
    ELSE lst

\* faulty variant: hydroxyurea is left out of the tag list
MarrowSuppressionWithoutHydroxyurea(lst, f) ==
    IF \/ "Chemotherapy / antimetabolites" \in f.exposures
       \/ "Linezolid" \in f.exposures
       \/ "Valproate" \in f.exposures
       \/ "Zidovudine / other marrow-toxic antivirals" \in f.exposures
       \/ "Methotrexate / TMP-SMX / pyrimethamine (folate antagonists)" \in f.exposures
    THEN add_item(lst, "Medication-associated marrow suppression / macrocytosis risk",
                  <<"Action: review timing vs anemia onset",
                    "Action: trend CBC",
                    "Action: consider hematology referral if severe/persistent or with other cytopenias">>, 38)
    ELSE lst

MarrowSuppressionRule(lst, f) ==
    IF \/ "Chemotherapy / antimetabolites" \in f.exposures
       \/ "Linezolid" \in f.exposures
       \/ "Valproate" \in f.exposures
       \/ "Zidovudine / other marrow-toxic antivirals" \in f.exposures
       \/ "Hydroxyurea" \in f.exposures
       \/ "Methotrexate / TMP-SMX / pyrimethamine (folate antagonists)" \in f.exposures
    THEN add_item(lst, "Medication-associated marrow suppression / macrocytosis risk",
                  <<"Action: review timing vs anemia onset",
                    "Action: trend CBC",
                    "Action: consider hematology referral if severe/persistent or with other cytopenias">>, 38)
    ELSE lst

\* a faulty variant: the list of the previous run is kept and built upon
BuildDxOnPrevious(f, marrow) ==
    MarrowSuppressionRule(
        AlcoholRule(PpiMetforminRule(AnticoagulantRule(NsaidRule(TshRule(HemolysisRule(
            FolateRule(B12Rule(MacrocyticRules(NormocyticRules(
                MicrocyticRules(dx, f), f, marrow), f), f), f), f), f), f), f), f), f), f)

\* dx = [] followed by every rule in the order the script evaluates them
BuildDx(f, marrow) ==
    LET d1  == MicrocyticRules(<<>>, f)
        d2  == NormocyticRules(d1, f, marrow)
        d3  == MacrocyticRules(d2, f)
        d4  == B12Rule(d3, f)
        d5  == FolateRule(d4, f)
        d6  == HemolysisRule(d5, f)
        d7  == TshRule(d6, f)
        d8  == NsaidRule(d7, f)
        d9  == AnticoagulantRule(d8, f)
        d10 == PpiMetforminRule(d9, f)
        d11 == AlcoholRule(d10, f)
    IN  MarrowSuppressionRule(d11, f)

\* dx_sorted = sorted(dx, key=priority); dx_unique = dedupe_by_title(dx_sorted)
Rank(items) == dedupe_by_title(SortByPriority(items))


-----------------------------------------------------------------------------
(* Strings *)

\* Every string the script handles as text, written out as its tokens
\* (re.findall(r"\w+|\W", s)): the words and the single characters between them.
\* Each string is followed by its tokens and closed by "\n", which no string
\* listed here contains.
TextData ==
    <<
     \* the empty string
     "", "\n",
     \* the suggestion lines written in the script
     "Reticulocyte count / RPI", "Reticulocyte", " ", "count", " ", "/", " ", "RPI", "\n",
     "TSH", "TSH", "\n",
     "eGFR/creatinine", "eGFR", "/", "creatinine", "\n",
     "Ferritin", "Ferritin", "\n",
     "Transferrin saturation (TSAT)", "Transferrin", " ", "saturation", " ", "(", "TSAT", ")",
        "\n",
     "Vitamin B12", "Vitamin", " ", "B12", "\n",
     "Folate", "Folate", "\n",
     "LDH", "LDH", "\n",
     "Haptoglobin", "Haptoglobin", "\n",
     "Indirect bilirubin", "Indirect", " ", "bilirubin", "\n",
     "Select an MCV category", "Select", " ", "an", " ", "MCV", " ", "category", "\n",
     "Action: assess bleeding source risk (GI/GYN) as appropriate", "Action", ":", " ", "assess",
        " ", "bleeding", " ", "source", " ", "risk", " ", "(", "GI", "/", "GYN", ")", " ", "as",
        " ", "appropriate", "\n",
     "Action: review chronic disease/CKD contribution; trend CBC", "Action", ":", " ", "review",
        " ", "chronic", " ", "disease", "/", "CKD", " ", "contribution", ";", " ", "trend", " ",
        "CBC", "\n",
     "Action: review meds/alcohol; consider LFTs + smear; refer if persistent/unexplained",
        "Action", ":", " ", "review", " ", "meds", "/", "alcohol", ";", " ", "consider", " ",
        "LFTs", " ", "+", " ", "smear", ";", " ", "refer", " ", "if", " ", "persistent", "/",
        "unexplained", "\n",
     "Iron studies (Ferritin, TSAT)", "Iron", " ", "studies", " ", "(", "Ferritin", ",", " ",
        "TSAT", ")", "\n",
     "Hemolysis markers (LDH, haptoglobin, indirect bilirubin)", "Hemolysis", " ", "markers",
        " ", "(", "LDH", ",", " ", "haptoglobin", ",", " ", "indirect", " ", "bilirubin", ")",
        "\n",
     "Peripheral smear review", "Peripheral", " ", "smear", " ", "review", "\n",
     "B12 and folate", "B12", " ", "and", " ", "folate", "\n",
     "MMA +/- homocysteine (if borderline)", "MMA", " ", "+", "/", "-", " ", "homocysteine", " ",
        "(", "if", " ", "borderline", ")", "\n",
     "Action: assess diet/malabsorption risks", "Action", ":", " ", "assess", " ", "diet", "/",
        "malabsorption", " ", "risks", "\n",
     "Intrinsic factor antibody (if pernicious anemia suspected)", "Intrinsic", " ", "factor",
        " ", "antibody", " ", "(", "if", " ", "pernicious", " ", "anemia", " ", "suspected", ")",
        "\n",
     "Action: assess nutrition/alcohol use", "Action", ":", " ", "assess", " ", "nutrition", "/",
        "alcohol", " ", "use", "\n",
     "Action: review folate-antagonist meds/exposures", "Action", ":", " ", "review", " ",
        "folate", "-", "antagonist", " ", "meds", "/", "exposures", "\n",
     "DAT/Coombs", "DAT", "/", "Coombs", "\n",
     "Action: consider G6PD if indicated", "Action", ":", " ", "consider", " ", "G6PD", " ",
        "if", " ", "indicated", "\n",
     "Action: repeat TSH/FT4 if needed", "Action", ":", " ", "repeat", " ", "TSH", "/", "FT4",
        " ", "if", " ", "needed", "\n",
     "Action: assess GI symptoms", "Action", ":", " ", "assess", " ", "GI", " ", "symptoms",
        "\n",
     "Action: review need for NSAID/ASA", "Action", ":", " ", "review", " ", "need", " ", "for",
        " ", "NSAID", "/", "ASA", "\n",
     "Action: review medication indications", "Action", ":", " ", "review", " ", "medication",
        " ", "indications", "\n",
     "Action: assess bleeding history", "Action", ":", " ", "assess", " ", "bleeding", " ",
        "history", "\n",
     "Action: assess neuropathy/glossitis", "Action", ":", " ", "assess", " ", "neuropathy", "/",
        "glossitis", "\n",
     "Action: consider LFTs", "Action", ":", " ", "consider", " ", "LFTs", "\n",
     "Action: consider counseling/support resources", "Action", ":", " ", "consider", " ",
        "counseling", "/", "support", " ", "resources", "\n",
     "Action: review timing vs anemia onset", "Action", ":", " ", "review", " ", "timing", " ",
        "vs", " ", "anemia", " ", "onset", "\n",
     "Action: trend CBC", "Action", ":", " ", "trend", " ", "CBC", "\n",
     "Action: consider hematology referral if severe/persistent or with other cytopenias",
        "Action", ":", " ", "consider", " ", "hematology", " ", "referral", " ", "if", " ",
        "severe", "/", "persistent", " ", "or", " ", "with", " ", "other", " ", "cytopenias",
        "\n",
     "Action: assess source of blood loss (GI/menstrual)", "Action", ":", " ", "assess", " ",
        "source", " ", "of", " ", "blood", " ", "loss", " ", "(", "GI", "/", "menstrual", ")",
        "\n",
     "Action: consider GI evaluation when appropriate (age/risk-based)", "Action", ":", " ",
        "consider", " ", "GI", " ", "evaluation", " ", "when", " ", "appropriate", " ", "(",
        "age", "/", "risk", "-", "based", ")", "\n",
     "Action: consider celiac testing if indicated", "Action", ":", " ", "consider", " ",
        "celiac", " ", "testing", " ", "if", " ", "indicated", "\n",
     "Action: consider stool testing/GI evaluation when appropriate", "Action", ":", " ",
        "consider", " ", "stool", " ", "testing", "/", "GI", " ", "evaluation", " ", "when", " ",
        "appropriate", "\n",
     "DAT/Coombs (if suspected AIHA)", "DAT", "/", "Coombs", " ", "(", "if", " ", "suspected",
        " ", "AIHA", ")", "\n",
     "Action: review chronic disease burden", "Action", ":", " ", "review", " ", "chronic", " ",
        "disease", " ", "burden", "\n",
     "CRP/ESR (if clinically indicated)", "CRP", "/", "ESR", " ", "(", "if", " ", "clinically",
        " ", "indicated", ")", "\n",
     "Action: consider hematology referral if unexplained or with other cytopenias", "Action",
        ":", " ", "consider", " ", "hematology", " ", "referral", " ", "if", " ", "unexplained",
        " ", "or", " ", "with", " ", "other", " ", "cytopenias", "\n",
     "Action: review meds/alcohol; consider hematology referral if persistent/unexplained",
        "Action", ":", " ", "review", " ", "meds", "/", "alcohol", ";", " ", "consider", " ",
        "hematology", " ", "referral", " ", "if", " ", "persistent", "/", "unexplained", "\n",
     "Action: review chronic inflammatory/infectious disease history", "Action", ":", " ",
        "review", " ", "chronic", " ", "inflammatory", "/", "infectious", " ", "disease", " ",
        "history", "\n",
     "CRP/ESR (if inflammatory disease suspected)", "CRP", "/", "ESR", " ", "(", "if", " ",
        "inflammatory", " ", "disease", " ", "suspected", ")", "\n",
     "Action: review CBC indices (RBC count, RDW)", "Action", ":", " ", "review", " ", "CBC",
        " ", "indices", " ", "(", "RBC", " ", "count", ",", " ", "RDW", ")", "\n",
     "Hemoglobin electrophoresis", "Hemoglobin", " ", "electrophoresis", "\n",
     "Action: assess for bleeding/iron loss as appropriate", "Action", ":", " ", "assess", " ",
        "for", " ", "bleeding", "/", "iron", " ", "loss", " ", "as", " ", "appropriate", "\n",
     \* what follows "Action:" in them, before and after strip()
     " assess bleeding source risk (GI/GYN) as appropriate", " ", "assess", " ", "bleeding", " ",
        "source", " ", "risk", " ", "(", "GI", "/", "GYN", ")", " ", "as", " ", "appropriate",
        "\n",
     "assess bleeding source risk (GI/GYN) as appropriate", "assess", " ", "bleeding", " ",
        "source", " ", "risk", " ", "(", "GI", "/", "GYN", ")", " ", "as", " ", "appropriate",
        "\n",
     " review chronic disease/CKD contribution; trend CBC", " ", "review", " ", "chronic", " ",
        "disease", "/", "CKD", " ", "contribution", ";", " ", "trend", " ", "CBC", "\n",
     "review chronic disease/CKD contribution; trend CBC", "review", " ", "chronic", " ",
        "disease", "/", "CKD", " ", "contribution", ";", " ", "trend", " ", "CBC", "\n",
     " review meds/alcohol; consider LFTs + smear; refer if persistent/unexplained", " ",
        "review", " ", "meds", "/", "alcohol", ";", " ", "consider", " ", "LFTs", " ", "+", " ",
        "smear", ";", " ", "refer", " ", "if", " ", "persistent", "/", "unexplained", "\n",
     "review meds/alcohol; consider LFTs + smear; refer if persistent/unexplained", "review",
        " ", "meds", "/", "alcohol", ";", " ", "consider", " ", "LFTs", " ", "+", " ", "smear",
        ";", " ", "refer", " ", "if", " ", "persistent", "/", "unexplained", "\n",
     " assess diet/malabsorption risks", " ", "assess", " ", "diet", "/", "malabsorption", " ",
        "risks", "\n",
     "assess diet/malabsorption risks", "assess", " ", "diet", "/", "malabsorption", " ",
        "risks", "\n",
     " assess nutrition/alcohol use", " ", "assess", " ", "nutrition", "/", "alcohol", " ",
        "use", "\n",
     "assess nutrition/alcohol use", "assess", " ", "nutrition", "/", "alcohol", " ", "use",
        "\n",
     " review folate-antagonist meds/exposures", " ", "review", " ", "folate", "-", "antagonist",
        " ", "meds", "/", "exposures", "\n",
     "review folate-antagonist meds/exposures", "review", " ", "folate", "-", "antagonist", " ",
        "meds", "/", "exposures", "\n",
     " consider G6PD if indicated", " ", "consider", " ", "G6PD", " ", "if", " ", "indicated",
        "\n",
     "consider G6PD if indicated", "consider", " ", "G6PD", " ", "if", " ", "indicated", "\n",
     " repeat TSH/FT4 if needed", " ", "repeat", " ", "TSH", "/", "FT4", " ", "if", " ",
        "needed", "\n",
     "repeat TSH/FT4 if needed", "repeat", " ", "TSH", "/", "FT4", " ", "if", " ", "needed",
        "\n",
     " assess GI symptoms", " ", "assess", " ", "GI", " ", "symptoms", "\n",
     "assess GI symptoms", "assess", " ", "GI", " ", "symptoms", "\n",
     " review need for NSAID/ASA", " ", "review", " ", "need", " ", "for", " ", "NSAID", "/",
        "ASA", "\n",
     "review need for NSAID/ASA", "review", " ", "need", " ", "for", " ", "NSAID", "/", "ASA",
        "\n",
     " review medication indications", " ", "review", " ", "medication", " ", "indications",
        "\n",
     "review medication indications", "review", " ", "medication", " ", "indications", "\n",
     " assess bleeding history", " ", "assess", " ", "bleeding", " ", "history", "\n",
     "assess bleeding history", "assess", " ", "bleeding", " ", "history", "\n",
     " assess neuropathy/glossitis", " ", "assess", " ", "neuropathy", "/", "glossitis", "\n",
     "assess neuropathy/glossitis", "assess", " ", "neuropathy", "/", "glossitis", "\n",
     " consider LFTs", " ", "consider", " ", "LFTs", "\n",
     "consider LFTs", "consider", " ", "LFTs", "\n",
     " consider counseling/support resources", " ", "consider", " ", "counseling", "/",
        "support", " ", "resources", "\n",
     "consider counseling/support resources", "consider", " ", "counseling", "/", "support", " ",
        "resources", "\n",
     " review timing vs anemia onset", " ", "review", " ", "timing", " ", "vs", " ", "anemia",
        " ", "onset", "\n",
     "review timing vs anemia onset", "review", " ", "timing", " ", "vs", " ", "anemia", " ",
        "onset", "\n",
     " trend CBC", " ", "trend", " ", "CBC", "\n",
     "trend CBC", "trend", " ", "CBC", "\n",
     " consider hematology referral if severe/persistent or with other cytopenias", " ",
        "consider", " ", "hematology", " ", "referral", " ", "if", " ", "severe", "/",
        "persistent", " ", "or", " ", "with", " ", "other", " ", "cytopenias", "\n",
     "consider hematology referral if severe/persistent or with other cytopenias", "consider",
        " ", "hematology", " ", "referral", " ", "if", " ", "severe", "/", "persistent", " ",
        "or", " ", "with", " ", "other", " ", "cytopenias", "\n",
     " assess source of blood loss (GI/menstrual)", " ", "assess", " ", "source", " ", "of", " ",
        "blood", " ", "loss", " ", "(", "GI", "/", "menstrual", ")", "\n",
     "assess source of blood loss (GI/menstrual)", "assess", " ", "source", " ", "of", " ",
        "blood", " ", "loss", " ", "(", "GI", "/", "menstrual", ")", "\n",
     " consider GI evaluation when appropriate (age/risk-based)", " ", "consider", " ", "GI",
        " ", "evaluation", " ", "when", " ", "appropriate", " ", "(", "age", "/", "risk", "-",
        "based", ")", "\n",
     "consider GI evaluation when appropriate (age/risk-based)", "consider", " ", "GI", " ",
        "evaluation", " ", "when", " ", "appropriate", " ", "(", "age", "/", "risk", "-",
        "based", ")", "\n",
     " consider celiac testing if indicated", " ", "consider", " ", "celiac", " ", "testing",
        " ", "if", " ", "indicated", "\n",
     "consider celiac testing if indicated", "consider", " ", "celiac", " ", "testing", " ",
        "if", " ", "indicated", "\n",
     " consider stool testing/GI evaluation when appropriate", " ", "consider", " ", "stool",
        " ", "testing", "/", "GI", " ", "evaluation", " ", "when", " ", "appropriate", "\n",
     "consider stool testing/GI evaluation when appropriate", "consider", " ", "stool", " ",
        "testing", "/", "GI", " ", "evaluation", " ", "when", " ", "appropriate", "\n",
     " review chronic disease burden", " ", "review", " ", "chronic", " ", "disease", " ",
        "burden", "\n",
     "review chronic disease burden", "review", " ", "chronic", " ", "disease", " ", "burden",
        "\n",
     " consider hematology referral if unexplained or with other cytopenias", " ", "consider",
        " ", "hematology", " ", "referral", " ", "if", " ", "unexplained", " ", "or", " ",
        "with", " ", "other", " ", "cytopenias", "\n",
     "consider hematology referral if unexplained or with other cytopenias", "consider", " ",
        "hematology", " ", "referral", " ", "if", " ", "unexplained", " ", "or", " ", "with",
        " ", "other", " ", "cytopenias", "\n",
     " review meds/alcohol; consider hematology referral if persistent/unexplained", " ",
        "review", " ", "meds", "/", "alcohol", ";", " ", "consider", " ", "hematology", " ",
        "referral", " ", "if", " ", "persistent", "/", "unexplained", "\n",
     "review meds/alcohol; consider hematology referral if persistent/unexplained", "review",
        " ", "meds", "/", "alcohol", ";", " ", "consider", " ", "hematology", " ", "referral",
        " ", "if", " ", "persistent", "/", "unexplained", "\n",
     " review chronic inflammatory/infectious disease history", " ", "review", " ", "chronic",
        " ", "inflammatory", "/", "infectious", " ", "disease", " ", "history", "\n",
     "review chronic inflammatory/infectious disease history", "review", " ", "chronic", " ",
        "inflammatory", "/", "infectious", " ", "disease", " ", "history", "\n",
     " review CBC indices (RBC count, RDW)", " ", "review", " ", "CBC", " ", "indices", " ", "(",
        "RBC", " ", "count", ",", " ", "RDW", ")", "\n",
     "review CBC indices (RBC count, RDW)", "review", " ", "CBC", " ", "indices", " ", "(",
        "RBC", " ", "count", ",", " ", "RDW", ")", "\n",
     " assess for bleeding/iron loss as appropriate", " ", "assess", " ", "for", " ", "bleeding",
        "/", "iron", " ", "loss", " ", "as", " ", "appropriate", "\n",
     "assess for bleeding/iron loss as appropriate", "assess", " ", "for", " ", "bleeding", "/",
        "iron", " ", "loss", " ", "as", " ", "appropriate", "\n",
     \* what titlecase_first makes of them
     "EGFR/creatinine", "EGFR", "/", "creatinine", "\n",
     "Assess bleeding source risk (GI/GYN) as appropriate", "Assess", " ", "bleeding", " ",
        "source", " ", "risk", " ", "(", "GI", "/", "GYN", ")", " ", "as", " ", "appropriate",
        "\n",
     "Review chronic disease/CKD contribution; trend CBC", "Review", " ", "chronic", " ",
        "disease", "/", "CKD", " ", "contribution", ";", " ", "trend", " ", "CBC", "\n",
     "Review meds/alcohol; consider LFTs + smear; refer if persistent/unexplained", "Review",
        " ", "meds", "/", "alcohol", ";", " ", "consider", " ", "LFTs", " ", "+", " ", "smear",
        ";", " ", "refer", " ", "if", " ", "persistent", "/", "unexplained", "\n",
     "Assess diet/malabsorption risks", "Assess", " ", "diet", "/", "malabsorption", " ",
        "risks", "\n",
     "Assess nutrition/alcohol use", "Assess", " ", "nutrition", "/", "alcohol", " ", "use",
        "\n",
     "Review folate-antagonist meds/exposures", "Review", " ", "folate", "-", "antagonist", " ",
        "meds", "/", "exposures", "\n",
     "Consider G6PD if indicated", "Consider", " ", "G6PD", " ", "if", " ", "indicated", "\n",
     "Repeat TSH/FT4 if needed", "Repeat", " ", "TSH", "/", "FT4", " ", "if", " ", "needed",
        "\n",
     "Assess GI symptoms", "Assess", " ", "GI", " ", "symptoms", "\n",
     "Review need for NSAID/ASA", "Review", " ", "need", " ", "for", " ", "NSAID", "/", "ASA",
        "\n",
     "Review medication indications", "Review", " ", "medication", " ", "indications", "\n",
     "Assess bleeding history", "Assess", " ", "bleeding", " ", "history", "\n",
     "Assess neuropathy/glossitis", "Assess", " ", "neuropathy", "/", "glossitis", "\n",
     "Consider LFTs", "Consider", " ", "LFTs", "\n",
     "Consider counseling/support resources", "Consider", " ", "counseling", "/", "support", " ",
        "resources", "\n",
     "Review timing vs anemia onset", "Review", " ", "timing", " ", "vs", " ", "anemia", " ",
        "onset", "\n",
     "Trend CBC", "Trend", " ", "CBC", "\n",
     "Consider hematology referral if severe/persistent or with other cytopenias", "Consider",
        " ", "hematology", " ", "referral", " ", "if", " ", "severe", "/", "persistent", " ",
        "or", " ", "with", " ", "other", " ", "cytopenias", "\n",
     "Assess source of blood loss (GI/menstrual)", "Assess", " ", "source", " ", "of", " ",
        "blood", " ", "loss", " ", "(", "GI", "/", "menstrual", ")", "\n",
     "Consider GI evaluation when appropriate (age/risk-based)", "Consider", " ", "GI", " ",
        "evaluation", " ", "when", " ", "appropriate", " ", "(", "age", "/", "risk", "-",
        "based", ")", "\n",
     "Consider celiac testing if indicated", "Consider", " ", "celiac", " ", "testing", " ",
        "if", " ", "indicated", "\n",
     "Consider stool testing/GI evaluation when appropriate", "Consider", " ", "stool", " ",
        "testing", "/", "GI", " ", "evaluation", " ", "when", " ", "appropriate", "\n",
     "Review chronic disease burden", "Review", " ", "chronic", " ", "disease", " ", "burden",
        "\n",
     "Consider hematology referral if unexplained or with other cytopenias", "Consider", " ",
        "hematology", " ", "referral", " ", "if", " ", "unexplained", " ", "or", " ", "with",
        " ", "other", " ", "cytopenias", "\n",
     "Review meds/alcohol; consider hematology referral if persistent/unexplained", "Review",
        " ", "meds", "/", "alcohol", ";", " ", "consider", " ", "hematology", " ", "referral",
        " ", "if", " ", "persistent", "/", "unexplained", "\n",
     "Review chronic inflammatory/infectious disease history", "Review", " ", "chronic", " ",
        "inflammatory", "/", "infectious", " ", "disease", " ", "history", "\n",
     "Review CBC indices (RBC count, RDW)", "Review", " ", "CBC", " ", "indices", " ", "(",
        "RBC", " ", "count", ",", " ", "RDW", ")", "\n",
     "Assess for bleeding/iron loss as appropriate", "Assess", " ", "for", " ", "bleeding", "/",
        "iron", " ", "loss", " ", "as", " ", "appropriate", "\n",
     \* the fixed annotations
     "Already entered: Iron studies available", "Already", " ", "entered", ":", " ", "Iron", " ",
        "studies", " ", "available", "\n",
     "Already entered: Hemolysis markers available", "Already", " ", "entered", ":", " ",
        "Hemolysis", " ", "markers", " ", "available", "\n",
     "Already entered: Reticulocyte data available", "Already", " ", "entered", ":", " ",
        "Reticulocyte", " ", "data", " ", "available", "\n",
     "Already entered.", "Already", " ", "entered", ".", "\n",
     \* the literal parts of the f-strings of already_entered_label
     "Already entered: TSH = ", "Already", " ", "entered", ":", " ", "TSH", " ", "=", " ", "\n",
     "Already entered: eGFR = ", "Already", " ", "entered", ":", " ", "eGFR", " ", "=", " ",
        "\n",
     "Already entered: Ferritin = ", "Already", " ", "entered", ":", " ", "Ferritin", " ", "=",
        " ", "\n",
     "Already entered: TSAT = ", "Already", " ", "entered", ":", " ", "TSAT", " ", "=", " ",
        "\n",
     "Already entered: B12 = ", "Already", " ", "entered", ":", " ", "B12", " ", "=", " ", "\n",
     "Already entered: Folate = ", "Already", " ", "entered", ":", " ", "Folate", " ", "=", " ",
        "\n",
     "Already entered: LDH = ", "Already", " ", "entered", ":", " ", "LDH", " ", "=", " ", "\n",
     "Already entered: Haptoglobin = ", "Already", " ", "entered", ":", " ", "Haptoglobin", " ",
        "=", " ", "\n",
     "Already entered: Indirect bilirubin = ", "Already", " ", "entered", ":", " ", "Indirect",
        " ", "bilirubin", " ", "=", " ", "\n",
     "Already entered: RPI = ", "Already", " ", "entered", ":", " ", "RPI", " ", "=", " ", "\n",
     "Already entered: Retic % = ", "Already", " ", "entered", ":", " ", "Retic", " ", "%", " ",
        "=", " ", "\n",
     "Already entered: Retic = ", "Already", " ", "entered", ":", " ", "Retic", " ", "=", " ",
        "\n",
     \* the literal parts after strip()
     "Already entered: TSH =", "Already", " ", "entered", ":", " ", "TSH", " ", "=", "\n",
     "Already entered: eGFR =", "Already", " ", "entered", ":", " ", "eGFR", " ", "=", "\n",
     "Already entered: Ferritin =", "Already", " ", "entered", ":", " ", "Ferritin", " ", "=",
        "\n",
     "Already entered: TSAT =", "Already", " ", "entered", ":", " ", "TSAT", " ", "=", "\n",
     "Already entered: B12 =", "Already", " ", "entered", ":", " ", "B12", " ", "=", "\n",
     "Already entered: Folate =", "Already", " ", "entered", ":", " ", "Folate", " ", "=", "\n",
     "Already entered: LDH =", "Already", " ", "entered", ":", " ", "LDH", " ", "=", "\n",
     "Already entered: Haptoglobin =", "Already", " ", "entered", ":", " ", "Haptoglobin", " ",
        "=", "\n",
     "Already entered: Indirect bilirubin =", "Already", " ", "entered", ":", " ", "Indirect",
        " ", "bilirubin", " ", "=", "\n",
     "Already entered: RPI =", "Already", " ", "entered", ":", " ", "RPI", " ", "=", "\n",
     "Already entered: Retic % =", "Already", " ", "entered", ":", " ", "Retic", " ", "%", " ",
        "=", "\n",
     "Already entered: Retic =", "Already", " ", "entered", ":", " ", "Retic", " ", "=", "\n",
     \* the characters of a formatted number and the option values
     "0", "0", "\n",
     "1", "1", "\n",
     "2", "2", "\n",
     "3", "3", "\n",
     "4", "4", "\n",
     "5", "5", "\n",
     "6", "6", "\n",
     "7", "7", "\n",
     "8", "8", "\n",
     "9", "9", "\n",
     ".", ".", "\n",
     "%", "%", "\n",
     "-", "-", "\n",
     "High", "High", "\n",
     "Low", "Low", "\n",
     "Normal", "Normal", "\n",
     "Unknown", "Unknown", "\n"
    >>

\* the positions of TextData where an entry starts: a string, then its tokens,
\* then "\n"
TextStarts ==
    {i \in 1..Len(TextData) : i = 1 \/ TextData[i - 1] = "\n"}

\* the tokens of the entry that starts at position i
TextAt(i) ==
    LET e == CHOOSE e \in (i + 1)..Len(TextData) :
                 TextData[e] = "\n" /\ \A j \in (i + 1)..(e - 1) : TextData[j] # "\n"
    IN  SubSeq(TextData, i + 1, e - 1)

TextTable ==
    [s \in {TextData[i] : i \in TextStarts} |->
        TextAt(CHOOSE i \in TextStarts : TextData[i] = s)] @@ <<>>

\* words with an upper-case letter, each followed by its lower-case form
LowerData ==
    <<"AIHA", "aiha", "ASA", "asa", "Action", "action", "Already", "already", "Assess", "assess",
      "B12", "b12", "CBC", "cbc", "CKD", "ckd", "CRP", "crp", "Consider", "consider",
      "Coombs", "coombs", "DAT", "dat", "EGFR", "egfr", "ESR", "esr", "FT4", "ft4",
      "Ferritin", "ferritin", "Folate", "folate", "G6PD", "g6pd", "GI", "gi", "GYN", "gyn",
      "Haptoglobin", "haptoglobin", "Hemoglobin", "hemoglobin", "Hemolysis", "hemolysis",
      "High", "high", "Indirect", "indirect", "Intrinsic", "intrinsic", "Iron", "iron",
      "LDH", "ldh", "LFTs", "lfts", "Low", "low", "MCV", "mcv", "MMA", "mma", "NSAID", "nsaid",
      "Normal", "normal", "Peripheral", "peripheral", "RBC", "rbc", "RDW", "rdw", "RPI", "rpi",
      "Repeat", "repeat", "Retic", "retic", "Reticulocyte", "reticulocyte", "Review", "review",
      "Select", "select", "TSAT", "tsat", "TSH", "tsh", "Transferrin", "transferrin",
      "Trend", "trend", "Unknown", "unknown", "Vitamin", "vitamin", "eGFR", "egfr">>

\* the function that takes data[i] to data[i + 1] for each odd i
Pairs(data) ==
    [w \in {data[2 * i - 1] : i \in 1..(Len(data) \div 2)} |->
        data[1 + CHOOSE j \in 1..Len(data) : j % 2 = 1 /\ data[j] = w]] @@ <<>>

LowerTable == Pairs(LowerData)

\* tok.lower()
Lower(tok) == IF tok \in DOMAIN LowerTable THEN LowerTable[tok] ELSE tok

\* words that start with a lower-case letter, each followed by its capitalised form
UpperFirstData ==
    <<"age", "Age", "alcohol", "Alcohol", "an", "An", "and", "And", "anemia", "Anemia",
      "antagonist", "Antagonist", "antibody", "Antibody", "appropriate", "Appropriate",
      "as", "As", "assess", "Assess", "available", "Available", "based", "Based",
      "bilirubin", "Bilirubin", "bleeding", "Bleeding", "blood", "Blood",
      "borderline", "Borderline", "burden", "Burden", "category", "Category",
      "celiac", "Celiac", "chronic", "Chronic", "clinically", "Clinically",
      "consider", "Consider", "contribution", "Contribution", "counseling", "Counseling",
      "count", "Count", "creatinine", "Creatinine", "cytopenias", "Cytopenias", "data", "Data",
      "diet", "Diet", "disease", "Disease", "eGFR", "EGFR",
      "electrophoresis", "Electrophoresis", "entered", "Entered", "evaluation", "Evaluation",
      "exposures", "Exposures", "factor", "Factor", "folate", "Folate", "for", "For",
      "glossitis", "Glossitis", "haptoglobin", "Haptoglobin", "hematology", "Hematology",
      "history", "History", "homocysteine", "Homocysteine", "if", "If",
      "indicated", "Indicated", "indications", "Indications", "indices", "Indices",
      "indirect", "Indirect", "infectious", "Infectious", "inflammatory", "Inflammatory",
      "iron", "Iron", "loss", "Loss", "malabsorption", "Malabsorption", "markers", "Markers",
      "medication", "Medication", "meds", "Meds", "menstrual", "Menstrual", "need", "Need",
      "needed", "Needed", "neuropathy", "Neuropathy", "nutrition", "Nutrition", "of", "Of",
      "onset", "Onset", "or", "Or", "other", "Other", "pernicious", "Pernicious",
      "persistent", "Persistent", "refer", "Refer", "referral", "Referral", "repeat", "Repeat",
      "resources", "Resources", "review", "Review", "risk", "Risk", "risks", "Risks",
      "saturation", "Saturation", "severe", "Severe", "smear", "Smear", "source", "Source",
      "stool", "Stool", "studies", "Studies", "support", "Support", "suspected", "Suspected",
      "symptoms", "Symptoms", "testing", "Testing", "timing", "Timing", "trend", "Trend",
      "unexplained", "Unexplained", "use", "Use", "vs", "Vs", "when", "When", "with", "With">>

UpperFirstTable == Pairs(UpperFirstData)

\* tok[0].upper() + tok[1:]
UpperFirst(tok) == IF tok \in DOMAIN UpperFirstTable THEN UpperFirstTable[tok] ELSE tok

\* s for a Python string that is written out in TextTable
Text(s) == TextTable[s]

\* the string written out as the tokens t
Join(t) == CHOOSE s \in DOMAIN TextTable : TextTable[s] = t

\* A string the script builds is a sequence of pieces, each a string of
\* TextTable: a suggestion line is one piece, an annotation is its literal part
\* followed by the characters of the formatted value.
Str(s) == <<s>>

\* not x, for a string x
IsEmpty(x) == \A i \in 1..Len(x) : x[i] = ""

\* the decimal digits of n >= 0, most significant first, one piece per digit
RECURSIVE DigitSeq(_)
DigitSeq(n) == IF n < 10 THEN <<ToString(n)>> ELSE DigitSeq(n \div 10) \o <<ToString(n % 10)>>

\* the last d decimal digits of n >= 0, zero padded
RECURSIVE Padded(_, _)
Padded(n, d) == IF d = 0 THEN <<>> ELSE Padded(n \div 10, d - 1) \o <<ToString(n % 10)>>

RECURSIVE Pow10(_)
Pow10(d) == IF d = 0 THEN 1 ELSE 10 * Pow10(d - 1)

\* round(n / den) for n >= 0, den > 0, ties to even: q and r are the quotient
\* and the remainder
Nearest(q, r, den) == IF 2 * r > den \/ (2 * r = den /\ q % 2 = 1) THEN q + 1 ELSE q

\* round(num / den * 10^d)
RoundScaled(num, den, d) == Nearest((num * Pow10(d)) \div den, (num * Pow10(d)) % den, den)

\* the decimal numeral of sc / 10^digits
Numeral(sc, digits) ==
    DigitSeq(sc \div Pow10(digits))
    \o (IF digits = 0 THEN <<>> ELSE <<".">> \o Padded(sc % Pow10(digits), digits))

\* f"{v:.{digits}f}{suffix}" for a rational v.  A formatted number is written one
\* character per piece.
FmtRat(v, digits, suffix) ==
    (IF v.num < 0 THEN <<"-">> ELSE <<>>)
    \o Numeral(RoundScaled(Abs(v.num), v.den, digits), digits) \o suffix

\* fmt(x, digits, suffix) for a typed number x, the dash for None, and "nan" for
\* a NaN whatever the digits
fmt(x, digits, suffix) ==
    IF IsNone(x) THEN <<"-">>
    ELSE IF IsNaN(x) THEN <<"n", "a", "n">> \o suffix
    ELSE FmtRat(RatOf(Val(x)), digits, suffix)


-----------------------------------------------------------------------------
(* String operations *)

\* on tokens
RECURSIVE LStrip(_)
LStrip(t) == IF t # <<>> /\ Head(t) = " " THEN LStrip(Tail(t)) ELSE t

RECURSIVE RStrip(_)
RStrip(t) == IF t # <<>> /\ t[Len(t)] = " " THEN RStrip(SubSeq(t, 1, Len(t) - 1)) ELSE t

\* s.lstrip() and s.rstrip() for each string of TextTable
LStripPiece == [s \in DOMAIN TextTable |-> Join(LStrip(Text(s)))] @@ <<>>

RStripPiece == [s \in DOMAIN TextTable |-> Join(RStrip(Text(s)))] @@ <<>>

\* x.strip() for a string x none of whose pieces is blank: the white space goes
\* from the front of the first piece and the back of the last
Strip(x) ==
    IF x = <<>> THEN x
    ELSE [[x EXCEPT ![1] = LStripPiece[@]] EXCEPT ![Len(x)] = RStripPiece[@]]

\* re.search(r"\bw\b", s, flags=re.I) for a single word w in lower case
HasWord(t, w) == \E i \in 1..Len(t) : Lower(t[i]) = w

\* re.search(r"\bw1 w2\b", s, flags=re.I) for a phrase given as lower-case tokens
HasPhrase(t, p) ==
    \E i \in 1..(Len(t) - Len(p) + 1) : \A j \in 1..Len(p) : Lower(t[i + j - 1]) = p[j]

\* s.lower().startswith("action:")
StartsWithAction(t) == Len(t) >= 2 /\ Lower(t[1]) = "action" /\ t[2] = ":"

\* s.split(":", 1)[1]
AfterFirstColon(t) ==
    LET i == CHOOSE k \in 1..Len(t) : t[k] = ":" /\ \A m \in 1..(k - 1) : t[m] # ":"
    IN  SubSeq(t, i + 1, Len(t))

\* s[0].upper() + s[1:] for each string of TextTable
UpperFirstPiece ==
    [s \in DOMAIN TextTable |->
        IF Text(s) = <<>> THEN s ELSE Join(<<UpperFirst(Text(s)[1])>> \o Tail(Text(s)))] @@ <<>>

\* s is the stripped string
UpperFirstOf(s) == IF IsEmpty(s) THEN s ELSE [s EXCEPT ![1] = UpperFirstPiece[@]]

titlecase_first(x) == UpperFirstOf(Strip(x))

\* the keys whose label is f"Already entered: ... = {fmt(inputs[key], digits, suffix)}"
Formatted ==
    [tsh      |-> [text |-> "Already entered: TSH = ", digits |-> 2, suffix |-> <<>>],
     egfr     |-> [text |-> "Already entered: eGFR = ", digits |-> 0, suffix |-> <<>>],
     ferritin |-> [text |-> "Already entered: Ferritin = ", digits |-> 0, suffix |-> <<>>],
     tsat     |-> [text |-> "Already entered: TSAT = ", digits |-> 0, suffix |-> <<"%">>],
     b12      |-> [text |-> "Already entered: B12 = ", digits |-> 0, suffix |-> <<>>],
     folate   |-> [text |-> "Already entered: Folate = ", digits |-> 1, suffix |-> <<>>]]

\* the keys whose label is f"Already entered: ... = {inputs[key]}"
Quoted ==
    [ldh           |-> "Already entered: LDH = ",
     haptoglobin   |-> "Already entered: Haptoglobin = ",
     indirect_bili |-> "Already entered: Indirect bilirubin = "]

Labelled(l, x) == <<l.text>> \o fmt(x, l.digits, l.suffix)

already_entered_label(key, inputs) ==
    CASE key \in DOMAIN Formatted -> Labelled(Formatted[key], inputs[key])
      [] key \in DOMAIN Quoted -> <<Quoted[key]>> \o inputs[key]
      [] key = "retic_any" ->
            IF ~IsNone(inputs.rpi)
            THEN <<"Already entered: RPI = ">> \o FmtRat(Val(inputs.rpi), 2, <<>>)
            ELSE IF ~IsNone(inputs.retic_pct)
            THEN <<"Already entered: Retic % = ">> \o fmt(inputs.retic_pct, 2, <<"%">>)
            ELSE IF ~IsNone(inputs.retic_qual)
            THEN <<"Already entered: Retic = ">> \o inputs.retic_qual
            ELSE Str("Already entered: Reticulocyte data available")
      [] OTHER -> Str("Already entered.")


-----------------------------------------------------------------------------
(* Suggestion expansion and filtering *)

\* The branch of expand_and_filter_suggestion that the stripped line s takes,
\* s as tokens.  The regular expressions look at the line alone, so the branch
\* is decided before any flag is read; "plain" stands for every "return [s]".
Classify(s) ==
    IF StartsWithAction(s) THEN "action"
    ELSE IF \/ HasPhrase(s, <<"iron", " ", "studies">>) \/ HasWord(s, "tibc")
            \/ HasWord(s, "tsat") \/ HasWord(s, "ferritin")
    THEN (IF HasPhrase(s, <<"iron", " ", "studies">>) THEN "iron studies"
          ELSE IF HasWord(s, "ferritin") /\ ~(HasWord(s, "tsat") \/ HasWord(s, "transferrin"))
          THEN "ferritin"
          ELSE IF (HasWord(s, "tsat") \/ HasPhrase(s, <<"transferrin", " ", "saturation">>))
                  /\ ~HasWord(s, "ferritin")
          THEN "tsat"
          ELSE "plain")
    ELSE IF \/ HasWord(s, "b12") \/ HasPhrase(s, <<"vitamin", " ", "b12">>)
            \/ HasWord(s, "folate")
    THEN LET mentions_b12    == HasWord(s, "b12") \/ HasPhrase(s, <<"vitamin", " ", "b12">>)
             mentions_folate == HasWord(s, "folate")
         IN  IF mentions_b12 /\ mentions_folate THEN "b12 and folate"
             ELSE IF mentions_b12 /\ ~mentions_folate THEN "b12"
             ELSE IF mentions_folate /\ ~mentions_b12 THEN "folate"
             ELSE "plain"
    ELSE IF \/ HasPhrase(s, <<"hemolysis", " ", "markers">>)
            \/ HasPhrase(s, <<"hemolysis", " ", "panel">>)
            \/ HasWord(s, "ldh") \/ HasWord(s, "haptoglobin")
            \/ HasWord(s, "indirect") \/ HasWord(s, "bilirubin")
    THEN (IF \/ HasPhrase(s, <<"hemolysis", " ", "markers">>)
             \/ HasPhrase(s, <<"hemolysis", " ", "panel">>)
          THEN "hemolysis markers"
          ELSE IF HasWord(s, "ldh") THEN "ldh"
          ELSE IF HasWord(s, "haptoglobin") THEN "haptoglobin"
          ELSE IF HasWord(s, "indirect") \/ HasWord(s, "bilirubin") THEN "indirect_bili"
          ELSE "plain")
    ELSE IF HasWord(s, "retic") \/ HasWord(s, "reticulocyte") \/ HasWord(s, "rpi")
    THEN "retic_any"
    ELSE IF HasWord(s, "tsh") THEN "tsh"
    ELSE IF HasWord(s, "egfr") \/ HasWord(s, "gfr") \/ HasWord(s, "creatinine") THEN "egfr"
    ELSE "plain"

\* the branch each line takes: s = line.strip()
LineKind == [line \in DOMAIN TextTable |-> Classify(Text(Strip(Str(line))[1]))] @@ <<>>

\* what an "Action:" line and a "plain" line are returned as:
\* titlecase_first(s.split(":", 1)[1].strip()), and s
LineText ==
    [line \in DOMAIN TextTable |->
        LET s == Strip(Str(line))
        IN  IF StartsWithAction(Text(s[1]))
            THEN titlecase_first(Strip(Str(Join(AfterFirstColon(Text(s[1]))))))
            ELSE s] @@ <<>>

\* [already_entered_label(key, inputs)] if teaching else []
Annotate(teaching, key, inputs) ==
    IF teaching THEN <<already_entered_label(key, inputs)>> ELSE <<>>

\* a faulty variant: the test is requested whether or not it is known
SingleTestAlwaysRequested(flag, key, name, inputs, teaching) == <<Str(name)>>

\* one test: the annotation (or nothing) when its flag is set, else its name
SingleTest(flag, key, name, inputs, teaching) ==
    IF flag THEN Annotate(teaching, key, inputs) ELSE <<Str(name)>>

\* "if missing: return missing" and "parts if parts else [...]"
OrElse(list, otherwise) == IF list # <<>> THEN list ELSE otherwise

\* a faulty variant: the whole bundle is requested while any part is missing
IronStudiesWholeBundle(kn, inputs, teaching) ==
    IF ~kn.ferritin \/ ~kn.tsat
    THEN <<Str("Ferritin"), Str("Transferrin saturation (TSAT)")>>
    ELSE IF teaching
    THEN <<already_entered_label("ferritin", inputs), already_entered_label("tsat", inputs)>>
    ELSE <<>>

IronStudies(kn, inputs, teaching) ==
    LET missing == (IF ~kn.ferritin THEN <<Str("Ferritin")>> ELSE <<>>)
                   \o (IF ~kn.tsat THEN <<Str("Transferrin saturation (TSAT)")>> ELSE <<>>)
        parts   == (IF ~IsNone(inputs.ferritin)
                    THEN <<already_entered_label("ferritin", inputs)>> ELSE <<>>)
                   \o (IF ~IsNone(inputs.tsat)
                       THEN <<already_entered_label("tsat", inputs)>> ELSE <<>>)
    IN  OrElse(missing,
               IF teaching
               THEN OrElse(parts, <<Str("Already entered: Iron studies available")>>)
               ELSE <<>>)

\* a faulty variant: both vitamins are asked for whatever is known
B12AndFolateBothAsked(kn, inputs, teaching) == <<Str("Vitamin B12"), Str("Folate")>>


B12AndFolate(kn, inputs, teaching) ==
    LET missing == (IF ~kn.b12 THEN <<Str("Vitamin B12")>> ELSE <<>>)
                   \o (IF ~kn.folate THEN <<Str("Folate")>> ELSE <<>>)
    IN  OrElse(missing,
               IF teaching
               THEN <<already_entered_label("b12", inputs),
                      already_entered_label("folate", inputs)>>
               ELSE <<>>)

HemolysisMarkers(kn, inputs, teaching) ==
    LET missing == (IF ~kn.ldh THEN <<Str("LDH")>> ELSE <<>>)
                   \o (IF ~kn.haptoglobin THEN <<Str("Haptoglobin")>> ELSE <<>>)
                   \o (IF ~kn.indirect_bili THEN <<Str("Indirect bilirubin")>> ELSE <<>>)
        parts   == (IF ~IsNone(inputs.ldh)
                    THEN <<already_entered_label("ldh", inputs)>> ELSE <<>>)
                   \o (IF ~IsNone(inputs.haptoglobin)
                       THEN <<already_entered_label("haptoglobin", inputs)>> ELSE <<>>)
                   \o (IF ~IsNone(inputs.indirect_bili)
                       THEN <<already_entered_label("indirect_bili", inputs)>> ELSE <<>>)
    IN  OrElse(missing,
               IF teaching
               THEN OrElse(parts, <<Str("Already entered: Hemolysis markers available")>>)
               ELSE <<>>)

\* the branches that ask for one test: the key of its flag and the name it is
\* asked for by
TestName ==
    [ferritin      |-> "Ferritin",
     tsat          |-> "Transferrin saturation (TSAT)",
     b12           |-> "Vitamin B12",
     folate        |-> "Folate",
     ldh           |-> "LDH",
     haptoglobin   |-> "Haptoglobin",
     indirect_bili |-> "Indirect bilirubin",
     retic_any     |-> "Reticulocyte count / RPI",
     tsh           |-> "TSH",
     egfr          |-> "eGFR/creatinine"]

\* what each branch returns
Branch(kind, line, kn, inputs, teaching) ==
    CASE kind = "iron studies" -> IronStudies(kn, inputs, teaching)
      [] kind = "b12 and folate" -> B12AndFolate(kn, inputs, teaching)
      [] kind = "hemolysis markers" -> HemolysisMarkers(kn, inputs, teaching)
      [] kind \in DOMAIN TestName ->
            SingleTest(kn[kind], kind, TestName[kind], inputs, teaching)
      [] OTHER -> <<LineText[line]>>

\* line is a string of TextTable; the result is a list of strings
expand_and_filter_suggestion(line, kn, inputs, teaching) ==
    IF line = "" THEN <<>> ELSE Branch(LineKind[line], line, kn, inputs, teaching)

RECURSIVE DedupeLinesFrom(_, _, _)

\* a faulty variant: repeated lines are kept
KeepEveryLine(lines) == lines


\* one turn of the loop, x = (x or "").strip()
DedupeLine(x, rest, seen, out) ==
    IF ~IsEmpty(x) /\ x \notin seen
    THEN DedupeLinesFrom(rest, seen \cup {x}, Append(out, x))
    ELSE DedupeLinesFrom(rest, seen, out)

DedupeLinesFrom(lines, seen, out) ==
    IF lines = <<>> THEN out ELSE DedupeLine(Strip(Head(lines)), Tail(lines), seen, out)

dedupe_lines(lines) == DedupeLinesFrom(lines, {}, <<>>)

RECURSIVE ExpandAll(_, _, _, _)
ExpandAll(lines, kn, inputs, teaching) ==
    IF lines = <<>> THEN <<>>
    ELSE expand_and_filter_suggestion(Head(lines), kn, inputs, teaching)
         \o ExpandAll(Tail(lines), kn, inputs, teaching)

expand_filter_list(lines, kn, inputs, teaching) ==
    dedupe_lines(ExpandAll(lines, kn, inputs, teaching))


-----------------------------------------------------------------------------
(* Next steps *)

next_most_informative(mcv_cat, marrow, kn) ==
    IF mcv_cat = Some(Microcytic)
    THEN (IF ~kn.iron_any THEN <<"Iron studies (Ferritin, TSAT)">>
          ELSE <<"Action: assess bleeding source risk (GI/GYN) as appropriate">>)
    ELSE IF mcv_cat = Some(Normocytic)
    THEN (IF ~kn.retic_any THEN <<"Reticulocyte count / RPI">>
          ELSE IF AppropriateMarrow(marrow) /\ ~kn.hemo_any
          THEN <<"Hemolysis markers (LDH, haptoglobin, indirect bilirubin)",
                 "Peripheral smear review">>
          ELSE <<"Action: review chronic disease/CKD contribution; trend CBC">>)
    ELSE IF mcv_cat = Some(Macrocytic)
    THEN (IF ~(kn.b12 /\ kn.folate) THEN <<"B12 and folate">>
          ELSE IF ~kn.tsh THEN <<"TSH">>
          ELSE <<"Action: review meds/alcohol; consider LFTs + smear; refer if persistent/unexplained">>)
    ELSE <<"Select an MCV category">>

high_yield_essentials ==
    <<"Peripheral smear review",
      "Reticulocyte count / RPI",
      "Iron studies (Ferritin, TSAT)",
      "B12 and folate",
      "Hemolysis markers (LDH, haptoglobin, indirect bilirubin)",
      "TSH",
      "eGFR/creatinine">>

ActionKeywords ==
    {"assess", "review", "consider", "trend", "counsel", "history", "refer",
     "evaluation", "coordinate"}

\* k in word, for the words of TextTable
HasSubstring(word, k) ==
    word = k \/ <<word, k>> \in {<<"counseling", "counsel">>, <<"referral", "refer">>}

\* the lower-case words of TextTable that contain a keyword
ActionWords ==
    {w \in {LowerTable[x] : x \in DOMAIN LowerTable} \cup DOMAIN UpperFirstTable :
        \E k \in ActionKeywords : HasSubstring(w, k)}

\* any(k in s.lower() for k in [...]) for each string s of TextTable: the keywords
\* are letters only, so an occurrence lies inside one word
HasActionKeyword ==
    [s \in DOMAIN TextTable |-> \E i \in 1..Len(Text(s)) : Lower(Text(s)[i]) \in ActionWords] @@ <<>>

IsActionLine(x) == \E i \in 1..Len(x) : HasActionKeyword[x[i]]

\* one turn of the loop over steps_filtered: the title-cased line s_norm goes to
\* the actions when it holds a keyword and to the tests when it does not
SplitStep(split, s_norm) ==
    IF IsActionLine(s_norm)
    THEN [split EXCEPT !.actions = Append(@, s_norm)]
    ELSE [split EXCEPT !.tests = Append(@, s_norm)]

SplitSteps(steps_filtered) ==
    LET F[i \in 0..Len(steps_filtered)] ==
            IF i = 0 THEN [tests |-> <<>>, actions |-> <<>>]
            ELSE SplitStep(F[i - 1], titlecase_first(steps_filtered[i]))
    IN  F[Len(steps_filtered)]

FirstN(lines, n) == SubSeq(lines, 1, IF Len(lines) < n THEN Len(lines) ELSE n)

\* steps = base_next + high_yield_essentials, expanded with teaching = False
StepsFiltered(mcv_cat, marrow, kn, inputs) ==
    expand_filter_list(next_most_informative(mcv_cat, marrow, kn) \o high_yield_essentials,
                       kn, inputs, FALSE)

\* tests = dedupe_lines(tests)[:3]; actions = dedupe_lines(actions)[:3]
FirstThree(split) ==
    [tests |-> FirstN(dedupe_lines(split.tests), 3),
     actions |-> FirstN(dedupe_lines(split.actions), 3)]

NextSteps(steps_filtered) == FirstThree(SplitSteps(steps_filtered))

-----------------------------------------------------------------------------
(* Referral reasons *)

\* a faulty variant: only the answer "Unknown" counts
UnknownOnly(x) == x = Some("Unknown")


YesOrUnknown(x) == x \in {Some("Yes"), Some("Unknown")}

Reason(cond, text) == IF cond THEN <<text>> ELSE <<>>

ReferralReasons(f, kn) ==
    FirstN(
      Reason(Lt(f.hb, 7) /\ (YesOrUnknown(f.symptomatic_any) \/ YesOrUnknown(f.high_risk_symptoms)),
             "Severe anemia with symptoms/high-risk features (coordinate urgent evaluation; hematology input may be appropriate).")
      \o Reason(YesOrUnknown(f.other_cytopenias),
             "Anemia with other cytopenias (WBC/platelets low) or pancytopenia.")
      \o Reason(YesOrUnknown(f.smear_abnormal),
             "Abnormal smear (e.g., blasts, schistocytes, dysplasia) or concerning morphology.")
      \o Reason((f.ldh = Some("High") /\ f.haptoglobin = Some("Low"))
                \/ (f.indirect_bili = Some("High") /\ f.ldh = Some("High")),
             "Suspected hemolysis (especially if unexplained, severe, or with abnormal smear).")
      \o Reason(f.mcv_cat = Some(Microcytic) /\ ~kn.iron_any,
             "Microcytic anemia with missing iron studies or unclear etiology after initial evaluation.")
      \o Reason(f.mcv_cat = Some(Macrocytic) /\ ~(kn.b12 /\ kn.folate),
             "Macrocytic anemia without B12/folate evaluation or persistent macrocytosis without clear cause.")
      \o Reason(f.mcv_cat = Some(Macrocytic) /\ (kn.b12 /\ kn.folate)
                /\ (YesOrUnknown(f.other_cytopenias) \/ YesOrUnknown(f.smear_abnormal)),
             "Macrocytosis with cytopenias or abnormal smear: consider marrow disorder; hematology evaluation is appropriate."),
      10)


-----------------------------------------------------------------------------
(* One run of the script *)

QualitativeMode == "Qualitative (Low/Normal/High)"

NumericMode == "Numeric (%)"

ExposureTags ==
    {"NSAIDs / aspirin (chronic)",
     "Anticoagulant/antiplatelet use",
     "PPI (long-term)",
     "Metformin (long-term)",
     "Alcohol use (heavy)",
     "Chemotherapy / antimetabolites",
     "Hydroxyurea",
     "Methotrexate / TMP-SMX / pyrimethamine (folate antagonists)",
     "Linezolid",
     "Valproate",
     "Zidovudine / other marrow-toxic antivirals",
     "Recent transfusion (last 3 months)"}

\* every widget at its default: toggles off, select boxes on "Select...", text
\* inputs empty, the retic radio on its first option, nothing multiselected
BlankForm ==
    [teaching_mode |-> FALSE,
     symptomatic_any |-> None, high_risk_symptoms |-> None,
     hb |-> None, hct |-> None, mcv_cat |-> None,
     other_cytopenias |-> None, smear_abnormal |-> None,
     retic_mode |-> QualitativeMode, retic_qual |-> None, retic_pct |-> None,
     expected_hct_input |-> None,
     ferritin |-> None, transferrin_sat |-> None, b12 |-> None, folate |-> None,
     ldh |-> None, haptoglobin |-> None, indirect_bili |-> None,
     tsh |-> None, egfr |-> None, exposures |-> {}]

\* nothing is generated while no MCV category is selected
NotGenerated ==
    [generated |-> FALSE, dx |-> <<>>, dx_unique |-> <<>>, tests |-> <<>>, actions |-> <<>>,
     referral_reasons |-> <<>>]

\* the run below "if mcv_cat is None: ... else:", d the list the rules built
RunFromDx(f, marrow, inputs, kn, d) ==
    [generated |-> TRUE, dx |-> d, dx_unique |-> Rank(d),
     referral_reasons |-> ReferralReasons(f, kn)]
    @@ NextSteps(StepsFiltered(f.mcv_cat, marrow, kn, inputs))

\* the run from the marrow response on
RunFromKnown(f, marrow, inputs, kn) ==
    [marrow_response |-> marrow, known |-> Some(kn)]
    @@ (IF IsNone(f.mcv_cat) THEN NotGenerated
        ELSE RunFromDx(f, marrow, inputs, kn, BuildDx(f, marrow)))

\* the run from the laboratory data on, r the RPI
RunFromInputs(f, r, inputs) ==
    RunFromKnown(f, MarrowResponse(r, f.retic_qual), inputs, build_known(inputs))

\* the run from the retic expander on; a ZeroDivisionError there ends the run:
\* nothing below it is computed
RunFromRpi(f, m, cr, r) ==
    IF (~IsNone(cr) /\ Raised(Val(cr))) \/ (~IsNone(r) /\ Raised(Val(r)))
    THEN [mf |-> m, corrected_retic |-> None, rpi |-> None, error |-> "ZeroDivisionError",
          marrow_response |-> "Unknown", known |-> None] @@ NotGenerated
    ELSE [mf |-> m, corrected_retic |-> cr, rpi |-> r, error |-> "none"]
         @@ RunFromInputs(f, r, Inputs(f, r))

RunFromRetic(f, m, cr) == RunFromRpi(f, m, cr, Rpi(cr, m))

\* Everything one run computes from the widget values f.  A ZeroDivisionError
\* in the retic expander ends the run there: nothing below it is computed.
Evaluate(f) ==
    RunFromRetic(f, maturation_factor(f.hct),
             CorrectedRetic(f.retic_pct, f.hct, ExpectedHct(f.expected_hct_input)))

Shows(f, e) ==
    /\ form = f
    /\ mf = e.mf
    /\ corrected_retic = e.corrected_retic
    /\ rpi = e.rpi
    /\ error = e.error
    /\ marrow_response = e.marrow_response
    /\ known = e.known
    /\ generated = e.generated
    /\ dx = e.dx
    /\ dx_unique = e.dx_unique
    /\ tests = e.tests
    /\ actions = e.actions
    /\ referral_reasons = e.referral_reasons

\* the optional data, grouped by what the script derives from them: severity,
\* CBC context, marrow response and the four laboratory panels
Panels ==
    {{"symptomatic_any", "high_risk_symptoms", "hb"},
     {"other_cytopenias", "smear_abnormal"},
     {"hct", "retic_qual", "retic_pct", "expected_hct_input"},
     {"ferritin", "transferrin_sat"}, {"b12", "folate"},
     {"ldh", "haptoglobin", "indirect_bili"}, {"tsh", "egfr"}}

\* the number of panels with a value in them plus the number of exposure tags
Entered(f) ==
    Cardinality({p \in Panels : \E k \in p : ~IsNone(f[k])}) + Cardinality(f.exposures)

\* a session fills in at most MaxEntered of them
MaxEntered == 2

\* a widget has a new value and the script runs again on the widget values f
Run(f) ==
    /\ f # form
    /\ Entered(f) <= MaxEntered
    /\ \E e \in {Evaluate(f)} :
        /\ form' = f
        /\ mf' = e.mf
        /\ corrected_retic' = e.corrected_retic
        /\ rpi' = e.rpi
        /\ error' = e.error
        /\ marrow_response' = e.marrow_response
        /\ known' = e.known
        /\ generated' = e.generated
        /\ dx' = e.dx
        /\ dx_unique' = e.dx_unique
        /\ tests' = e.tests
        /\ actions' = e.actions
        /\ referral_reasons' = e.referral_reasons
        /\ UNCHANGED <<call, ret>>

Init == Shows(BlankForm, Evaluate(BlankForm)) /\ call = None /\ ret = None


-----------------------------------------------------------------------------
(* Widget domains *)

YesNoOptions == {"Select...", "Yes", "No", "Unknown"}

McvOptions == {"Select...", Microcytic, Normocytic, Macrocytic}

ReticOptions == {"Select...", "Low", "Normal", "High"}

HighOptions == {"Select...", "Normal", "High", "Unknown"}

LowOptions == {"Select...", "Normal", "Low", "Unknown"}

\* what can be typed into a text input whose interesting values are vals
Texts(vals) == {Blank, Junk} \cup {Typed(n) : n \in vals}

HbValues == {6, 7}

HctValues == {-5, 0, 19, 20, 29, 30, 39, 40}

ReticPctValues == {0, 2, 4, 8}

ExpectedHctValues == {-40, 0, 20, 40}

FerritinValues == {29, 30, 100}

TsatValues == {19, 20}

B12Values == {199, 200}

FolateValues == {3, 4}

TshValues == {5, 6}

EgfrValues == {59, 60}

-----------------------------------------------------------------------------
(* Widget edits: each sets one script variable and re-runs the script *)

ToggleTeachingMode == Run([form EXCEPT !.teaching_mode = ~form.teaching_mode])

SetSymptomaticAny == \E x \in YesNoOptions : Run([form EXCEPT !.symptomatic_any = selected(x)])

SetHighRiskSymptoms ==
    \E x \in YesNoOptions : Run([form EXCEPT !.high_risk_symptoms = selected(x)])

SetHb == \E x \in Texts(HbValues) : Run([form EXCEPT !.hb = to_float(x)])

SetHct == \E x \in Texts(HctValues) : Run([form EXCEPT !.hct = to_float(x)])

SetMcvCat == \E x \in McvOptions : Run([form EXCEPT !.mcv_cat = selected(x)])

SetOtherCytopenias ==
    \E x \in YesNoOptions : Run([form EXCEPT !.other_cytopenias = selected(x)])

SetSmearAbnormal == \E x \in YesNoOptions : Run([form EXCEPT !.smear_abnormal = selected(x)])

\* a faulty variant: the input of the other mode keeps the value it had
SetReticModeKeepingValues ==
    \E m \in {QualitativeMode, NumericMode} :
        /\ m # form.retic_mode
        /\ Run([form EXCEPT !.retic_mode = m])


\* Only the input of the chosen mode is drawn; the other variable keeps the None
\* it is given at the top of the retic section, and the input that appears is new.
SetReticMode ==
    \E m \in {QualitativeMode, NumericMode} :
        /\ m # form.retic_mode
        /\ Run([form EXCEPT !.retic_mode = m, !.retic_qual = None, !.retic_pct = None])

SetReticQual ==
    /\ form.retic_mode = QualitativeMode
    /\ \E x \in ReticOptions : Run([form EXCEPT !.retic_qual = selected(x)])

SetReticPct ==
    /\ form.retic_mode # QualitativeMode
    /\ \E x \in Texts(ReticPctValues) : Run([form EXCEPT !.retic_pct = to_float(x)])

SetExpectedHct ==
    \E x \in Texts(ExpectedHctValues) : Run([form EXCEPT !.expected_hct_input = to_float(x)])

SetFerritin == \E x \in Texts(FerritinValues) : Run([form EXCEPT !.ferritin = to_float(x)])

SetTransferrinSat ==
    \E x \in Texts(TsatValues) : Run([form EXCEPT !.transferrin_sat = to_float(x)])

SetB12 ==
    \E x \in Texts(B12Values) \cup {NotANumber} : Run([form EXCEPT !.b12 = to_float(x)])

SetFolate ==
    \E x \in Texts(FolateValues) \cup {NotANumber} : Run([form EXCEPT !.folate = to_float(x)])

SetLdh == \E x \in HighOptions : Run([form EXCEPT !.ldh = selected(x)])

SetHaptoglobin == \E x \in LowOptions : Run([form EXCEPT !.haptoglobin = selected(x)])

SetIndirectBili == \E x \in HighOptions : Run([form EXCEPT !.indirect_bili = selected(x)])

SetTsh == \E x \in Texts(TshValues) : Run([form EXCEPT !.tsh = to_float(x)])

SetEgfr == \E x \in Texts(EgfrValues) : Run([form EXCEPT !.egfr = to_float(x)])

\* the multiselect: one tag is added or removed
SetExposures ==
    \E t \in ExposureTags :
        Run([form EXCEPT !.exposures = IF t \in @ THEN @ \ {t} ELSE @ \cup {t}])

-----------------------------------------------------------------------------
(* Specifications *)

\* a session in the reticulocyte section
NextRpi == SetHct \/ SetReticMode \/ SetReticQual \/ SetReticPct \/ SetExpectedHct

SpecRpi == Init /\ [][NextRpi]_vars


\* a session that picks the MCV category and enters the data the differential
\* is built from
Next ==
    \/ SetMcvCat
    \/ SetReticQual
    \/ SetFerritin
    \/ SetTransferrinSat
    \/ SetB12
    \/ SetFolate
    \/ SetLdh
    \/ SetHaptoglobin
    \/ SetIndirectBili
    \/ SetTsh
    \/ SetEgfr
    \/ SetExposures

Spec == Init /\ [][Next]_vars

\* the same session in either display mode
NextModes == Next \/ ToggleTeachingMode

SpecModes == Init /\ [][NextModes]_vars

\* a session that enters numbers and leaves others blank
NextUnset ==
    \/ SetMcvCat
    \/ SetSymptomaticAny
    \/ SetHb
    \/ SetHct
    \/ SetReticMode
    \/ SetReticPct
    \/ SetFerritin
    \/ SetTransferrinSat
    \/ SetB12
    \/ SetFolate
    \/ SetTsh
    \/ SetEgfr

SpecUnset == Init /\ [][NextUnset]_vars

\* a session that answers the questions the referral reasons depend on
NextReferral ==
    \/ SetMcvCat
    \/ SetSymptomaticAny
    \/ SetHighRiskSymptoms
    \/ SetHb
    \/ SetOtherCytopenias
    \/ SetSmearAbnormal
    \/ SetFerritin
    \/ SetTransferrinSat
    \/ SetB12
    \/ SetFolate

SpecReferral == Init /\ [][NextReferral]_vars

\* a session that settles the marrow response and the kidney function
NextMarrow ==
    \/ SetMcvCat
    \/ SetHct
    \/ SetReticMode
    \/ SetReticQual
    \/ SetReticPct
    \/ SetEgfr

SpecMarrow == Init /\ [][NextMarrow]_vars


-----------------------------------------------------------------------------
(* Direct calls of the ranking helpers *)

\* items as add_item builds them, with the titles and priorities of rules that tie
RankPool ==
    {[title |-> t, workup |-> w, priority |-> p] :
        t \in {"Blood loss (acute or occult)", "Folate deficiency"},
        w \in {<<>>, <<"TSH">>},
        p \in {15, 40}}

MaxItems == 3

\* the lists of at most MaxItems items
RankLists == UNION {[1..n -> RankPool] : n \in 0..MaxItems}

InitRank ==
    /\ Shows(BlankForm, Evaluate(BlankForm))
    /\ call \in {Some(items) : items \in RankLists}
    /\ ret = None

\* dx_unique = dedupe_by_title(sorted(dx, key=priority)) on the list in call
ApplyRank ==
    /\ ret = None
    /\ ret' = Some(Rank(Val(call)))
    /\ UNCHANGED <<form, outputs, call>>

SpecRank == InitRank /\ [][ApplyRank]_vars


-----------------------------------------------------------------------------
(* Direct calls of the suggestion filter *)

\* one value for each of the twelve inputs
SampleInputs ==
    [tsh |-> Some(6), egfr |-> Some(59), ferritin |-> Some(29), tsat |-> Some(19),
     b12 |-> Some(199), folate |-> Some(3), ldh |-> Some("High"),
     haptoglobin |-> Some("Low"), indirect_bili |-> Some("High"),
     retic_pct |-> Some(2), retic_qual |-> Some("High"), rpi |-> Some(Rat(3, 2))]

MaxKnown == 3

\* the inputs dictionaries with at most MaxKnown values that are not None
InputsPool ==
    {[k \in DOMAIN SampleInputs |-> IF k \in S THEN SampleInputs[k] ELSE None] :
        S \in {T \in SUBSET DOMAIN SampleInputs : Cardinality(T) <= MaxKnown}}

InitSuggest ==
    /\ Shows(BlankForm, Evaluate(BlankForm))
    /\ call \in {Some([line |-> l, inputs |-> i, teaching |-> t]) :
                    l \in DOMAIN TextTable, i \in InputsPool, t \in BOOLEAN}
    /\ ret = None

\* expand_and_filter_suggestion(line, known, inputs, teaching) as the script
\* calls it: known is build_known(inputs)
ApplySuggest ==
    /\ ret = None
    /\ ret' = Some(expand_and_filter_suggestion(Val(call).line, build_known(Val(call).inputs),
                                                 Val(call).inputs, Val(call).teaching))
    /\ UNCHANGED <<form, outputs, call>>

SpecSuggest == InitSuggest /\ [][ApplySuggest]_vars


-----------------------------------------------------------------------------
(* Properties of the ranked differential *)

InRanked(title) == HasTitle(dx_unique, title)

TopTitle == dx_unique[1].title

HemolysisTriad ==
    form.ldh = Some("High") /\ form.haptoglobin = Some("Low") /\ form.indirect_bili = Some("High")

\* ranked is what a stable sort of items by priority leaves when every item
\* but the first with its title is dropped
StablyRanked(items, ranked) ==
    LET Before(i, j) == \/ items[i].priority < items[j].priority
                        \/ items[i].priority = items[j].priority /\ i < j
        kept == {i \in 1..Len(items) :
                    \A j \in 1..Len(items) :
                        (j # i /\ items[j].title = items[i].title) => Before(i, j)}
    IN  /\ Len(ranked) = Cardinality(kept)
        /\ \A k \in 1..Len(ranked) :
               \E i \in kept : /\ ranked[k] = items[i]
                                /\ Cardinality({j \in kept : Before(j, i)}) = k - 1

\* C1: whatever list of items is sorted on priority and passed through
\* dedupe_by_title, no two items of the result have the same title.
RankedTitlesDistinct ==
    ret # None =>
        \A i, j \in 1..Len(Val(ret)) : Val(ret)[i].title = Val(ret)[j].title => i = j

\* a list with the same title three times has been ranked down to one item
RankDroppedDuplicates ==
    /\ ret # None
    /\ Len(Val(call)) = 3
    /\ \A i \in 1..3 : Val(call)[i].title = "Folate deficiency"
    /\ Val(call)[1] # Val(call)[2]
    /\ Len(Val(ret)) = 1

\* C2: the ranked differential is in non-decreasing priority order, items of
\* equal priority stand in the order in which their rules added them, and
\* deduplication keeps the first occurrence of a title without reordering the rest.
RankedStably ==
    /\ \A k \in 1..(Len(dx_unique) - 1) : dx_unique[k].priority <= dx_unique[k + 1].priority
    /\ StablyRanked(dx, dx_unique)

\* blood loss and folate deficiency, both of priority 15, ranked in rule order
TieKeptInRuleOrder ==
    /\ generated
    /\ \E k \in 1..(Len(dx_unique) - 1) :
           /\ dx_unique[k].title = "Blood loss (acute or occult)"
           /\ dx_unique[k + 1].title = "Folate deficiency"
           /\ dx_unique[k].priority = dx_unique[k + 1].priority

\* the item the microcytic branch adds for the ferritin and transferrin
\* saturation in the form, where the specification names one
MicrocyticCase ==
    IF Lt(form.ferritin, 30) THEN "Iron deficiency anemia"
    ELSE IF Geq(form.ferritin, 100) /\ Lt(form.transferrin_sat, 20)
    THEN "Anemia of chronic inflammation with functional iron deficiency"
    ELSE IF IsNone(form.ferritin) THEN "Thalassemia trait / hemoglobinopathy"
    ELSE "none"

\* C3 as stated: with Microcytic selected the microcytic item is the top item
\* whatever the other inputs are.
MicrocyticItemAlwaysTop ==
    (generated /\ form.mcv_cat = Some(Microcytic) /\ MicrocyticCase # "none")
        => TopTitle = MicrocyticCase

\* C3: with Microcytic selected the microcytic item is in the differential, and
\* it is the top item unless a global item of smaller priority is there: the
\* hemolysis item (8) comes before all three, the B12 item (12) and the folate
\* item (15) come before the two that are not iron deficiency (20 and 30).
MicrocyticItemTopUnlessOutranked ==
    (generated /\ form.mcv_cat = Some(Microcytic) /\ MicrocyticCase # "none")
        => /\ InRanked(MicrocyticCase)
           /\ TopTitle =
                 IF HemolysisTriad THEN "Hemolysis (supported by markers)"
                 ELSE IF MicrocyticCase = "Iron deficiency anemia" THEN MicrocyticCase
                 ELSE IF Lt(form.b12, 200) THEN "Vitamin B12 deficiency"
                 ELSE IF Lt(form.folate, 4) THEN "Folate deficiency"
                 ELSE MicrocyticCase

\* ferritin below 30 with the hemolysis triad: iron deficiency is second
HemolysisOutranksIronDeficiency ==
    /\ generated
    /\ form.mcv_cat = Some(Microcytic)
    /\ Lt(form.ferritin, 30)
    /\ HemolysisTriad
    /\ TopTitle = "Hemolysis (supported by markers)"
    /\ dx_unique[2].title = "Iron deficiency anemia"

\* C4 as stated: B12 below 200 puts the B12 item in the differential for every
\* MCV category, unset included.
B12ItemForEveryMcv == Lt(form.b12, 200) => InRanked("Vitamin B12 deficiency")

\* C4: B12 below 200 puts the B12 item in the differential for each of the
\* three MCV categories; with no category selected nothing is generated.
B12ItemOnceMcvSelected ==
    Lt(form.b12, 200) =>
        IF IsNone(form.mcv_cat) THEN ~generated /\ dx_unique = <<>>
        ELSE generated /\ InRanked("Vitamin B12 deficiency")

\* B12 of 199 under Microcytic: the item is there
B12ItemUnderMicrocytic ==
    /\ form.mcv_cat = Some(Microcytic)
    /\ form.b12 = Some(199)
    /\ InRanked("Vitamin B12 deficiency")

MarrowSuppressiveTags ==
    {"Chemotherapy / antimetabolites", "Linezolid", "Valproate",
     "Zidovudine / other marrow-toxic antivirals", "Hydroxyurea",
     "Methotrexate / TMP-SMX / pyrimethamine (folate antagonists)"}

\* C5: once an MCV category is selected, each global item is in the
\* differential exactly when its own trigger holds.
GlobalItemsIffTriggered ==
    generated =>
        /\ InRanked("Vitamin B12 deficiency") <=> Lt(form.b12, 200)
        /\ InRanked("Folate deficiency") <=> Lt(form.folate, 4)
        /\ InRanked("Hemolysis (supported by markers)") <=> HemolysisTriad
        /\ InRanked("Hypothyroidism-associated anemia") <=> Gt(form.tsh, 5)
        /\ InRanked("Medication-associated occult GI blood loss (NSAIDs/ASA)")
              <=> "NSAIDs / aspirin (chronic)" \in form.exposures
        /\ InRanked("Bleeding risk contribution (anticoagulant/antiplatelet)")
              <=> "Anticoagulant/antiplatelet use" \in form.exposures
        /\ InRanked("Medication-associated B12 deficiency risk (PPI/metformin)")
              <=> ("PPI (long-term)" \in form.exposures
                   \/ "Metformin (long-term)" \in form.exposures)
        /\ InRanked("Alcohol-related macrocytosis / nutritional deficiency")
              <=> "Alcohol use (heavy)" \in form.exposures
        /\ InRanked("Medication-associated marrow suppression / macrocytosis risk")
              <=> form.exposures \cap MarrowSuppressiveTags # {}

\* the hemolysis triad and hydroxyurea under Normocytic: both items are there
TriadAndHydroxyureaItems ==
    /\ form.mcv_cat = Some(Normocytic)
    /\ HemolysisTriad
    /\ form.exposures = {"Hydroxyurea"}
    /\ InRanked("Hemolysis (supported by markers)")
    /\ InRanked("Medication-associated marrow suppression / macrocytosis risk")
    /\ ~InRanked("Vitamin B12 deficiency")


-----------------------------------------------------------------------------
(* Properties of the suggestion filter *)

\* the constituents of each composite suggestion, in the order they are asked for
Constituents ==
    [k \in {"iron studies", "b12 and folate", "hemolysis markers"} |->
        CASE k = "iron studies" ->
                <<[key |-> "ferritin", name |-> "Ferritin"],
                  [key |-> "tsat", name |-> "Transferrin saturation (TSAT)"]>>
          [] k = "b12 and folate" ->
                <<[key |-> "b12", name |-> "Vitamin B12"],
                  [key |-> "folate", name |-> "Folate"]>>
          [] k = "hemolysis markers" ->
                <<[key |-> "ldh", name |-> "LDH"],
                  [key |-> "haptoglobin", name |-> "Haptoglobin"],
                  [key |-> "indirect_bili", name |-> "Indirect bilirubin"]>>]

SingleConcepts ==
    {"ferritin", "tsat", "b12", "folate", "ldh", "haptoglobin", "indirect_bili",
     "retic_any", "tsh", "egfr"}

\* the call under way
CallLine == Val(call).line

CallKnown == build_known(Val(call).inputs)

CallKind == LineKind[CallLine]

\* the flags the concept of the line depends on
ConceptFlags ==
    IF CallKind \in DOMAIN Constituents
    THEN {Constituents[CallKind][i].key : i \in DOMAIN Constituents[CallKind]}
    ELSE IF CallKind \in SingleConcepts THEN {CallKind}
    ELSE {}

FullyKnown == ConceptFlags # {} /\ \A k \in ConceptFlags : CallKnown[k]

RECURSIVE MissingNames(_, _)
MissingNames(cs, kn) ==
    IF cs = <<>> THEN <<>>
    ELSE (IF kn[Head(cs).key] THEN <<>> ELSE <<Str(Head(cs).name)>>)
         \o MissingNames(Tail(cs), kn)

\* the characters of a string, piece after piece
RECURSIVE Tokens(_)
Tokens(x) == IF x = <<>> THEN <<>> ELSE Text(Head(x)) \o Tokens(Tail(x))

IsAnnotation(x) ==
    LET t == Tokens(x)
    IN  Len(t) >= 4 /\ SubSeq(t, 1, 4) = <<"Already", " ", "entered", ":">>

\* C6: a composite suggestion with a constituent that is not known comes back
\* as the names of the constituents that are not known, in their fixed order,
\* in both modes: not empty, no known constituent, not the suggestion itself.
\* Iron studies with ferritin known and TSAT not is the TSAT request alone.
BundleDecomposed ==
    (ret # None /\ CallKind \in DOMAIN Constituents /\ ~FullyKnown) =>
        LET cs  == Constituents[CallKind]
            out == Val(ret)
        IN  /\ out = MissingNames(cs, CallKnown)
            /\ out # <<>>
            /\ \A i \in DOMAIN out :
                  /\ Tokens(out[i]) # Text(CallLine)
                  /\ \A j \in DOMAIN cs : CallKnown[cs[j].key] => out[i] # Str(cs[j].name)
            /\ (CallLine = "Iron studies (Ferritin, TSAT)"
                 /\ CallKnown.ferritin /\ ~CallKnown.tsat)
                    => out = <<(<<"Transferrin saturation (TSAT)">>)>>
            /\ LineKind["Iron studies (Ferritin, TSAT)"] = "iron studies"
            /\ LineKind["B12 and folate"] = "b12 and folate"
            /\ LineKind["Hemolysis markers (LDH, haptoglobin, indirect bilirubin)"]
                  = "hemolysis markers"

\* iron studies in teaching mode with ferritin entered and TSAT not
IronStudiesAsksTsatOnly ==
    /\ ret # None
    /\ CallLine = "Iron studies (Ferritin, TSAT)"
    /\ Val(call).teaching
    /\ Val(call).inputs.ferritin # None
    /\ Val(call).inputs.tsat = None
    /\ Val(ret) = <<(<<"Transferrin saturation (TSAT)">>)>>

\* what both statements of C7 say of a suggestion that is not an action
SuppressedOrAnnotated ==
    LET out == Val(ret)
    IN  /\ (CallKind # "action" /\ FullyKnown /\ ~Val(call).teaching) => out = <<>>
        /\ (CallKind # "action" /\ FullyKnown /\ Val(call).teaching) =>
              /\ Len(out) = Cardinality(ConceptFlags)
              /\ \A i \in DOMAIN out :
                    /\ IsAnnotation(out[i])
                    /\ Tokens(out[i]) # Text(CallLine)
              /\ CallKind \in DOMAIN Constituents =>
                    \A i \in DOMAIN out :
                        out[i] = already_entered_label(Constituents[CallKind][i].key,
                                                       Val(call).inputs)
        /\ CallKind = "plain" =>
              Len(out) = 1 /\ Tokens(out[1]) = RStrip(LStrip(Text(CallLine)))

\* C7 as stated: a fully known concept is suppressed or annotated, and a
\* suggestion with no concept, or one that starts with "Action:", comes back as
\* it is in both modes.
ActionPassedThrough ==
    (ret # None /\ CallLine # "") =>
        /\ SuppressedOrAnnotated
        /\ CallKind = "action" =>
              Len(Val(ret)) = 1 /\ Tokens(Val(ret)[1]) = RStrip(LStrip(Text(CallLine)))

\* C7: a fully known concept is suppressed or annotated, a suggestion with no
\* concept comes back trimmed, and one that starts with "Action:" is never
\* suppressed but comes back without that prefix, its first letter a capital.
ActionKeptWithoutPrefix ==
    (ret # None /\ CallLine # "") =>
        /\ SuppressedOrAnnotated
        /\ CallKind = "action" =>
              LET t    == RStrip(LStrip(Text(CallLine)))
                  rest == LStrip(SubSeq(t, 3, Len(t)))
              IN  /\ Len(Val(ret)) = 1
                  /\ Tokens(Val(ret)[1]) =
                        IF rest = <<>> THEN <<>> ELSE <<UpperFirst(Head(rest))>> \o Tail(rest)

\* "Action: repeat TSH/FT4 if needed" with TSH entered, not in teaching mode
ActionKeptThoughTshKnown ==
    /\ ret # None
    /\ CallLine = "Action: repeat TSH/FT4 if needed"
    /\ Val(call).inputs.tsh # None
    /\ ~Val(call).teaching
    /\ Val(ret) = <<(<<"Repeat TSH/FT4 if needed">>)>>


-----------------------------------------------------------------------------
(* Properties of the reticulocyte section *)

\* C8: the maturation factor follows the step table of the hematocrit: none
\* without a hematocrit, 1.0 from 40, 1.5 from 30, 2.0 from 20, 2.5 below 20
\* (zero and negative values included); it is never 0 and never anything else.
MaturationFactorTable ==
    /\ mf = IF IsNone(form.hct) THEN None
            ELSE IF Val(form.hct) >= 40 THEN Some([num |-> 1, den |-> 1])
            ELSE IF Val(form.hct) >= 30 THEN Some([num |-> 3, den |-> 2])
            ELSE IF Val(form.hct) >= 20 THEN Some([num |-> 2, den |-> 1])
            ELSE Some([num |-> 5, den |-> 2])
    /\ mf # None => Val(mf).num # 0

\* a hematocrit of 0 has the factor 2.5, one of 40 would have 1.0
ZeroHematocritFactor == form.hct = Some(0) /\ mf = Some([num |-> 5, den |-> 2])

\* C9: the calculation never fails; the corrected count is there exactly when
\* the retic percentage and the hematocrit are entered and the expected
\* hematocrit (40 when blank) is not 0, and is retic * hct / expected; the RPI
\* is there exactly when the corrected count is, and is corrected / factor;
\* otherwise both are none.
RpiNeverFails ==
    LET expected == IF IsNone(form.expected_hct_input) THEN 40
                    ELSE Val(form.expected_hct_input)
        defined  == ~IsNone(form.retic_pct) /\ ~IsNone(form.hct) /\ expected # 0
    IN  /\ error = "none"
        /\ defined =>
              /\ corrected_retic = Some(Rat(Val(form.retic_pct) * Val(form.hct), expected))
              /\ rpi = Some(Rat(Val(corrected_retic).num * Val(mf).den,
                                 Val(corrected_retic).den * Val(mf).num))
              /\ Val(corrected_retic).den # 0
              /\ Val(rpi).den # 0
        /\ ~defined => corrected_retic = None /\ rpi = None

\* an expected hematocrit of 0 with the other two entered: nothing is computed
ZeroExpectedHctSkipped ==
    /\ form.expected_hct_input = Some(0)
    /\ form.retic_pct = Some(4)
    /\ form.hct = Some(20)
    /\ corrected_retic = None
    /\ rpi = None
    /\ error = "none"

\* C10: the marrow response is by the RPI when there is one (appropriate from
\* 2, the boundary included, inadequate below), else by the qualitative
\* reticulocyte count (High appropriate, Low inadequate, Normal unknown), else
\* unknown; there is no other label.
MarrowResponseLabels ==
    /\ marrow_response =
          IF rpi # None
          THEN (IF Val(rpi).num >= 2 * Val(rpi).den
                THEN "Appropriate (RPI >=2)" ELSE "Inadequate (RPI <2)")
          ELSE IF form.retic_qual = Some("High") THEN "Appropriate/High retic"
          ELSE IF form.retic_qual = Some("Low") THEN "Inadequate/Low retic"
          ELSE "Unknown"
    /\ marrow_response \in {"Appropriate (RPI >=2)", "Inadequate (RPI <2)",
                             "Appropriate/High retic", "Inadequate/Low retic", "Unknown"}

\* a corrected count of 4.0 with the factor 2.0: the RPI is 2 and appropriate
RpiOfExactlyTwo ==
    /\ corrected_retic = Some([num |-> 4, den |-> 1])
    /\ mf = Some([num |-> 2, den |-> 1])
    /\ rpi = Some([num |-> 2, den |-> 1])
    /\ marrow_response = "Appropriate (RPI >=2)"

-----------------------------------------------------------------------------
(* Properties of a whole run *)

Listed(title) == HasTitle(dx, title) \/ InRanked(title)

SevereAnemiaReason ==
    "Severe anemia with symptoms/high-risk features (coordinate urgent evaluation; hematology input may be appropriate)."

Referred(reason) == \E i \in 1..Len(referral_reasons) : referral_reasons[i] = reason

\* C12: a number that is not entered is compared with nothing and does not
\* count as 0.  With ferritin unset there is no 'Iron deficiency anemia' and no
\* functional-iron-deficiency item, with TSAT unset no functional-iron-deficiency
\* item, with B12, folate, TSH or eGFR unset no 'Vitamin B12 deficiency',
\* 'Folate deficiency', 'Hypothyroidism-associated anemia' or 'Anemia associated
\* with CKD', with hemoglobin unset no severe-anemia referral reason; and with
\* retic % or hematocrit unset the RPI is None, not 0.
UnsetNeverCompared ==
    /\ IsNone(form.ferritin) =>
          /\ ~Listed("Iron deficiency anemia")
          /\ ~Listed("Anemia of chronic inflammation with functional iron deficiency")
    /\ IsNone(form.transferrin_sat) =>
          ~Listed("Anemia of chronic inflammation with functional iron deficiency")
    /\ IsNone(form.b12) => ~Listed("Vitamin B12 deficiency")
    /\ IsNone(form.folate) => ~Listed("Folate deficiency")
    /\ IsNone(form.tsh) => ~Listed("Hypothyroidism-associated anemia")
    /\ IsNone(form.egfr) => ~Listed("Anemia associated with CKD")
    /\ IsNone(form.hb) => ~Referred(SevereAnemiaReason)
    /\ (IsNone(form.retic_pct) \/ IsNone(form.hct)) => rpi = None /\ corrected_retic = None

\* microcytic and symptomatic with TSAT 19 entered, ferritin and hemoglobin not:
\* the differential is the thalassemia item alone and nothing is referred
UnsetFerritinAndHemoglobin ==
    /\ form.mcv_cat = Some(Microcytic)
    /\ IsNone(form.ferritin) /\ form.transferrin_sat = Some(19)
    /\ IsNone(form.hb) /\ form.symptomatic_any = Some("Yes")
    /\ Titles(dx_unique) = <<"Thalassemia trait / hemoglobinopathy">>
    /\ referral_reasons = <<>>


-----------------------------------------------------------------------------
(* Properties of the referral reasons *)

SevereHemoglobin == form.hb # None /\ Val(form.hb) < 7

\* C13 as stated: hemoglobin below 7 with symptoms answered Yes is referred
\* whatever else is entered, the MCV category unset included.
SevereSymptomaticAlwaysReferred ==
    (SevereHemoglobin /\ form.symptomatic_any = Some("Yes")) => Referred(SevereAnemiaReason)

\* C13: once an MCV category is selected, hemoglobin below 7 with symptoms
\* answered Yes is referred whatever else is entered; while no MCV category is
\* selected the referral reasons are not evaluated and the list is empty.
SevereSymptomaticReferredOnceMcvSelected ==
    /\ (SevereHemoglobin /\ form.symptomatic_any = Some("Yes") /\ form.mcv_cat # None)
          => Referred(SevereAnemiaReason)
    /\ form.mcv_cat = None => referral_reasons = <<>>

\* normocytic, hemoglobin 6, symptomatic, other cytopenias: the severe-anemia
\* reason comes first
SevereAnemiaReferredFirst ==
    /\ form.mcv_cat = Some(Normocytic)
    /\ form.hb = Some(6) /\ form.symptomatic_any = Some("Yes")
    /\ form.other_cytopenias = Some("Yes")
    /\ Len(referral_reasons) = 2
    /\ referral_reasons[1] = SevereAnemiaReason

\* C14 as stated: the severe-anemia reason is there only with hemoglobin below 7
\* and at least one of the two symptom questions answered Yes.
SevereReasonOnlyOnYes ==
    Referred(SevereAnemiaReason) =>
        /\ SevereHemoglobin
        /\ form.symptomatic_any = Some("Yes") \/ form.high_risk_symptoms = Some("Yes")

\* C14: the severe-anemia reason is there exactly when an MCV category is
\* selected, hemoglobin is entered and below 7, and at least one of the two
\* symptom questions is answered Yes or Unknown; it is absent when hemoglobin is
\* unset or 7 and above, and when both answers are No or not given.
SevereReasonIffTriggered ==
    Referred(SevereAnemiaReason) <=>
        /\ form.mcv_cat # None
        /\ SevereHemoglobin
        /\ \/ form.symptomatic_any \in {Some("Yes"), Some("Unknown")}
           \/ form.high_risk_symptoms \in {Some("Yes"), Some("Unknown")}

\* hemoglobin 6, symptoms Unknown, high-risk symptoms No: referred
SevereReasonOnUnknownSymptoms ==
    /\ form.hb = Some(6)
    /\ form.symptomatic_any = Some("Unknown")
    /\ form.high_risk_symptoms = Some("No")
    /\ Referred(SevereAnemiaReason)


MicrocyticReason ==
    "Microcytic anemia with missing iron studies or unclear etiology after initial evaluation."

MacrocyticUnevaluatedReason ==
    "Macrocytic anemia without B12/folate evaluation or persistent macrocytosis without clear cause."

MarrowDisorderReason ==
    "Macrocytosis with cytopenias or abnormal smear: consider marrow disorder; hematology evaluation is appropriate."

CytopeniasReason == "Anemia with other cytopenias (WBC/platelets low) or pancytopenia."

SmearReason ==
    "Abnormal smear (e.g., blasts, schistocytes, dysplasia) or concerning morphology."

YesOrUnknownAnswers == {Some("Yes"), Some("Unknown")}

\* C20: the microcytic reason is there iff the category is Microcytic and
\* neither ferritin nor TSAT is entered; the macrocytic-unevaluated reason iff it
\* is Macrocytic and B12 or folate is unset; the marrow-disorder reason iff it is
\* Macrocytic, B12 and folate are both entered and other cytopenias or abnormal
\* smear is Yes or Unknown.  No two of the three are there together, and the
\* list has at most 7 entries, so that the cap of 10 drops no matched reason:
\* the cytopenia and smear reasons are there whenever they are triggered.
McvReasonsFollowConditions ==
    /\ Referred(MicrocyticReason) <=>
          /\ form.mcv_cat = Some(Microcytic)
          /\ form.ferritin = None /\ form.transferrin_sat = None
    /\ Referred(MacrocyticUnevaluatedReason) <=>
          /\ form.mcv_cat = Some(Macrocytic)
          /\ form.b12 = None \/ form.folate = None
    /\ Referred(MarrowDisorderReason) <=>
          /\ form.mcv_cat = Some(Macrocytic)
          /\ form.b12 # None /\ form.folate # None
          /\ \/ form.other_cytopenias \in YesOrUnknownAnswers
             \/ form.smear_abnormal \in YesOrUnknownAnswers
    /\ Cardinality({r \in {MicrocyticReason, MacrocyticUnevaluatedReason, MarrowDisorderReason} :
                       Referred(r)}) <= 1
    /\ Len(referral_reasons) <= 7
    /\ form.mcv_cat # None =>
          /\ Referred(CytopeniasReason) <=> form.other_cytopenias \in YesOrUnknownAnswers
          /\ Referred(SmearReason) <=> form.smear_abnormal \in YesOrUnknownAnswers

\* macrocytic with B12 and folate entered and the smear answered Unknown: the
\* smear reason and the marrow-disorder reason
MarrowDisorderReferred ==
    /\ form.mcv_cat = Some(Macrocytic)
    /\ form.b12 = Some(200) /\ form.folate = Some(3)
    /\ form.smear_abnormal = Some("Unknown")
    /\ referral_reasons = <<SmearReason, MarrowDisorderReason>>


-----------------------------------------------------------------------------
(* Properties of the next steps *)

RECURSIVE IsSubsequence(_, _)
\* a is b with some entries left out
IsSubsequence(a, b) ==
    IF a = <<>> THEN TRUE
    ELSE IF b = <<>> THEN FALSE
    ELSE IF Head(a) = Head(b) THEN IsSubsequence(Tail(a), Tail(b))
    ELSE IsSubsequence(a, Tail(b))

Distinct(lines) == \A i, j \in 1..Len(lines) : lines[i] = lines[j] => i = j

\* what the most informative next step and then the seven essentials ask for
\* on this run, in that order, repetitions included
StepsInOrder ==
    LET asked == ExpandAll(next_most_informative(form.mcv_cat, marrow_response, Val(known))
                              \o high_yield_essentials,
                           Val(known), Inputs(form, rpi), FALSE)
    IN  [i \in 1..Len(asked) |-> titlecase_first(asked[i])]

\* C15: with an MCV category selected the next steps are at most 3 tests and at
\* most 3 actions, 6 entries in all, no string twice among the tests or among
\* the actions, in the order in which the most informative next step and then
\* the fixed essentials ask for them; what the most informative step asks for
\* first heads the tests or the actions.
NextStepsCappedInOrder ==
    form.mcv_cat # None =>
        /\ Len(tests) <= 3 /\ Len(actions) <= 3 /\ Len(tests) + Len(actions) <= 6
        /\ Distinct(tests) /\ Distinct(actions)
        /\ IsSubsequence(tests, StepsInOrder) /\ IsSubsequence(actions, StepsInOrder)
        /\ StepsInOrder # <<>> =>
              \/ tests # <<>> /\ tests[1] = StepsInOrder[1]
              \/ actions # <<>> /\ actions[1] = StepsInOrder[1]

\* normocytic with nothing entered, in teaching mode: the reticulocyte count is
\* asked for once though it is both the most informative step and an essential,
\* and the cap drops the vitamins and everything after them
ReticulocytesAskedOnce ==
    /\ form.teaching_mode
    /\ form.mcv_cat = Some(Normocytic)
    /\ tests = <<Str("Reticulocyte count / RPI"), Str("Ferritin"),
                 Str("Transferrin saturation (TSAT)")>>
    /\ actions = <<Str("Peripheral smear review")>>


\* name is among the next steps
Asked(name) ==
    \/ \E i \in 1..Len(tests) : tests[i] = Str(name)
    \/ \E i \in 1..Len(actions) : actions[i] = Str(name)

StartsAlreadyEntered(x) ==
    Len(Tokens(x)) >= 3 /\ SubSeq(Tokens(x), 1, 3) = <<"Already", " ", "entered">>

-----------------------------------------------------------------------------
(* Properties of the MCV branches *)

MicrocyticTitles ==
    {"Iron deficiency anemia",
     "Anemia of chronic inflammation with functional iron deficiency",
     "Thalassemia trait / hemoglobinopathy"}

NormocyticTitles ==
    {"Blood loss (acute or occult)",
     "Hemolysis",
     "Anemia of chronic inflammation",
     "Anemia associated with CKD",
     "Bone marrow process / underproduction (consider if persistent or with other cytopenias)"}

MacrocytosisTitle ==
    "Macrocytosis with B12/folate not low (consider alcohol/liver/thyroid/meds; marrow disorder if persistent)"

\* C17: the items of an MCV branch are there only under its category: the three
\* microcytic items only under Microcytic, the five normocytic items only under
\* Normocytic, the macrocytosis item only under Macrocytic.  Under Microcytic
\* exactly one of the three is there: 'Iron deficiency anemia' iff ferritin is
\* entered and < 30, the functional-iron-deficiency item iff ferritin >= 100 and
\* TSAT is entered and < 20, the thalassemia item in every other case.
OneMcvBranch ==
    /\ \A t \in MicrocyticTitles : Listed(t) => form.mcv_cat = Some(Microcytic)
    /\ \A t \in NormocyticTitles : Listed(t) => form.mcv_cat = Some(Normocytic)
    /\ Listed(MacrocytosisTitle) => form.mcv_cat = Some(Macrocytic)
    /\ form.mcv_cat = Some(Microcytic) =>
          LET low        == form.ferritin # None /\ Val(form.ferritin) < 30
              functional == /\ form.ferritin # None /\ Val(form.ferritin) >= 100
                            /\ form.transferrin_sat # None /\ Val(form.transferrin_sat) < 20
          IN  /\ Listed("Iron deficiency anemia") <=> low
              /\ Listed("Anemia of chronic inflammation with functional iron deficiency")
                    <=> functional
              /\ Listed("Thalassemia trait / hemoglobinopathy") <=> ~low /\ ~functional
              /\ Cardinality({t \in MicrocyticTitles : Listed(t)}) = 1
              /\ Cardinality({i \in 1..Len(dx) : dx[i].title \in MicrocyticTitles}) = 1

\* microcytic with ferritin 100 and TSAT 20: the thalassemia item
HighFerritinNormalTsat ==
    /\ form.mcv_cat = Some(Microcytic)
    /\ form.ferritin = Some(100) /\ form.transferrin_sat = Some(20)
    /\ Titles(dx_unique) = <<"Thalassemia trait / hemoglobinopathy">>


UnderproductionTitle ==
    "Bone marrow process / underproduction (consider if persistent or with other cytopenias)"

\* C18: under Normocytic an appropriate marrow response (by RPI, or a High
\* qualitative count) gives 'Blood loss (acute or occult)' and 'Hemolysis' and
\* none of the chronic-inflammation, CKD and underproduction items; every other
\* response (inadequate by RPI, Low, or unknown, a Normal count included) gives
\* 'Anemia of chronic inflammation' and the underproduction item, neither blood
\* loss nor 'Hemolysis', and 'Anemia associated with CKD' iff eGFR is entered
\* and < 60.  The CKD item is there under no other category and under no
\* appropriate response, whatever the eGFR.
NormocyticByMarrowResponse ==
    LET appropriate == marrow_response \in {"Appropriate (RPI >=2)", "Appropriate/High retic"}
        lowEgfr     == form.egfr # None /\ Val(form.egfr) < 60
    IN  /\ (form.mcv_cat = Some(Normocytic) /\ appropriate) =>
              /\ Listed("Blood loss (acute or occult)") /\ Listed("Hemolysis")
              /\ ~Listed("Anemia of chronic inflammation")
              /\ ~Listed("Anemia associated with CKD")
              /\ ~Listed(UnderproductionTitle)
        /\ (form.mcv_cat = Some(Normocytic) /\ ~appropriate) =>
              /\ Listed("Anemia of chronic inflammation") /\ Listed(UnderproductionTitle)
              /\ ~Listed("Blood loss (acute or occult)") /\ ~Listed("Hemolysis")
              /\ Listed("Anemia associated with CKD") <=> lowEgfr
        /\ Listed("Anemia associated with CKD") =>
              form.mcv_cat = Some(Normocytic) /\ ~appropriate

\* normocytic, hematocrit 20 and retic 8 %, so an RPI of 2, with eGFR 59: blood
\* loss and hemolysis, no CKD item
AppropriateRpiWithLowEgfr ==
    /\ form.mcv_cat = Some(Normocytic)
    /\ form.hct = Some(20) /\ form.retic_pct = Some(8)
    /\ form.egfr = Some(59)
    /\ marrow_response = "Appropriate (RPI >=2)"
    /\ Titles(dx_unique) = <<"Blood loss (acute or occult)", "Hemolysis">>


\* C19: under Macrocytic the macrocytosis item is there iff B12 is unset or
\* >= 200 and folate is unset or >= 4: never next to 'Vitamin B12 deficiency' or
\* 'Folate deficiency', and always when both vitamins are unset.
MacrocytosisIffVitaminsNotLow ==
    form.mcv_cat = Some(Macrocytic) =>
        /\ Listed(MacrocytosisTitle) <=>
              /\ form.b12 = None \/ Geq(form.b12, 200)
              /\ form.folate = None \/ Geq(form.folate, 4)
        /\ ~(Listed(MacrocytosisTitle) /\ Listed("Vitamin B12 deficiency"))
        /\ ~(Listed(MacrocytosisTitle) /\ Listed("Folate deficiency"))
        /\ (form.b12 = None /\ form.folate = None) => Listed(MacrocytosisTitle)

\* macrocytic with B12 200 and folate not entered: the macrocytosis item alone
MacrocytosisWithFolateUnset ==
    /\ form.mcv_cat = Some(Macrocytic)
    /\ form.b12 = Some(200) /\ form.folate = None
    /\ Titles(dx_unique) = <<MacrocytosisTitle>>


-----------------------------------------------------------------------------
(* Properties of the MCV gate *)

\* the run went past "if mcv_cat is None" and found no item: the script shows
\* "Enter more data to generate a ranked differential."
EnterMoreData == generated /\ dx_unique = <<>>

\* C21: with an MCV category selected the run generates the summary and the
\* ranked differential has at least one item, so "Enter more data ..." is never
\* shown; under Macrocytic the macrocytosis item, the B12 item or the folate
\* item is listed.  With no MCV category selected nothing is generated: no
\* differential, no next steps, no referral reasons.
DifferentialNeverEmpty ==
    /\ ~EnterMoreData
    /\ ~IsNone(form.mcv_cat) =>
          /\ generated
          /\ Len(dx) >= 1 /\ Len(dx_unique) >= 1
    /\ form.mcv_cat = Some(Macrocytic) =>
          \/ InRanked(MacrocytosisTitle)
          \/ InRanked("Vitamin B12 deficiency")
          \/ InRanked("Folate deficiency")
    /\ IsNone(form.mcv_cat) =>
          /\ ~generated
          /\ dx = <<>> /\ dx_unique = <<>>
          /\ tests = <<>> /\ actions = <<>>
          /\ referral_reasons = <<>>

\* Macrocytic with "nan" typed for B12 and nothing else entered: to_float returns
\* a NaN, "b12 >= 200" and "b12 < 200" are both false, no rule adds an item and
\* the script shows "Enter more data ..."
EnterMoreDataOnNaN ==
    /\ form.mcv_cat = Some(Macrocytic)
    /\ IsNaN(form.b12) /\ form.folate = None
    /\ EnterMoreData

-----------------------------------------------------------------------------
(* Properties of the reticulocyte inputs *)

\* C22: the qualitative retic and the retic % are never both entered, the retic
\* mode leaving the other one None; rpi is not None only if retic % and
\* hematocrit are both entered.  So the flag rpi implies the flag retic_pct,
\* retic_any equals retic_pct or retic_qual, and rpi is never there together
\* with a qualitative retic.
ReticInputsExclusive ==
    /\ ~(form.retic_qual # None /\ form.retic_pct # None)
    /\ form.retic_mode = QualitativeMode => form.retic_pct = None
    /\ form.retic_mode = NumericMode => form.retic_qual = None
    /\ rpi # None => form.retic_pct # None /\ form.hct # None
    /\ ~(rpi # None /\ form.retic_qual # None)
    /\ known # None =>
          /\ Val(known).rpi = (rpi # None)
          /\ Val(known).retic_pct = (form.retic_pct # None)
          /\ Val(known).retic_qual = (form.retic_qual # None)
          /\ Val(known).rpi => Val(known).retic_pct
          /\ Val(known).retic_any = (Val(known).retic_pct \/ Val(known).retic_qual)

\* numeric mode with retic % and hematocrit entered: the RPI is computed and
\* labels the marrow response, and no qualitative retic is there
RpiWithoutQualitativeRetic ==
    /\ form.retic_mode = NumericMode
    /\ form.mcv_cat # None
    /\ rpi # None
    /\ Val(known).rpi /\ Val(known).retic_any /\ ~Val(known).retic_qual
    /\ marrow_response = "Inadequate (RPI <2)"


====
